---- MODULE Spec2Model ----
(***************************************************************************)
(* Chamartin Smart Resilience: the weather fusion and risk-scoring         *)
(* pipeline.                                                               *)
(*                                                                         *)
(* Seven specifications share this module:                                 *)
(*   SpecScore  - the risk scoring engine (calculateRiskScore) applied to  *)
(*                inputs drawn from bounded grids;                         *)
(*   SpecServer - one run of the weather query (GET /api/weather): source  *)
(*                results, historical baseline, fusion;                    *)
(*   Spec       - the useWeatherData hook: periodic and manual refresh,    *)
(*                simulation and reset, with the responses in flight.      *)
(*   SpecMatch  - findSimilarHistoricalEvent on a grid of readings;        *)
(*   SpecAdapter - the three source adapters against provider answers;     *)
(*   SpecSimulator - the DANASimulator panel: validation, timeline timers  *)
(*                and the hand-over to the hook's simulateWeather;         *)
(*   SpecRecommend - generateHistoricalRecommendations on a grid of        *)
(*                readings, scores and ERA5 validations.                   *)
(*                                                                         *)
(* Numbers.  A weather quantity (temperature, humidity, precipitation,     *)
(* windSpeed, windDirection, pressure) is counted in hundredths of its     *)
(* unit: 5.01 mm/h is 501.  The values a provider reports, the bounds and  *)
(* constants of the source and the inputs of the grids are integers of     *)
(* hundredths.  A number of a reading that the fusion returns, that the    *)
(* hook holds or that the panel submits is held as it is, not rounded: as  *)
(* the exact quotient num / den of hundredths together with the double     *)
(* that the source computes for it (8.000000000000002 where 0.1 * 0.6 +    *)
(* 19.85 * 0.4 is 8 in exact arithmetic).  A platform's exposure is in     *)
(* hundredths (0.6 is 60) and an anomaly factor is in hundredths (1.15 is  *)
(* 115).  The source computes in IEEE doubles.  The definitions compute in *)
(* exact integer and rational arithmetic wherever that gives the source's  *)
(* result, and in doubles, operation by operation as the source does,      *)
(* where the result turns on the last bits of a double: a score that lands *)
(* on or near n + 1/2, a comparison whose two sides are equal in exact     *)
(* arithmetic, a variance that is exactly zero.                            *)
(***************************************************************************)
EXTENDS Integers, Sequences, FiniteSets, TLC

VARIABLES
  \* --- risk scoring engine (SpecScore)
  scWeather,            \* the WeatherData handed to calculateRiskScore
  scPlatform,           \* the Platform handed to calculateRiskScore
  scLevel,              \* the baseline's overall anomaly level
  scScore,              \* the returned score, NoScore before the call
  \* --- weather query (SpecServer)
  srvPc,                \* position in GET: "sources", "validate", "fuse", "done", "fallback"
  srvAemet,             \* aemetData, the result of fetchAEMETData()
  srvNasa,              \* nasaData, the result of fetchNASAData()
  srvEra5,              \* era5Data, the result of fetchERA5HistoricalData()
  srvCopernicus,        \* copernicusData
  srvResponse,          \* the body handed to NextResponse.json
  \* --- useWeatherData hook (Spec): the React state
  weatherData,          \* the displayed reading, None while null
  platforms,            \* the platforms with their current riskScore
  loading,
  lastUpdate,           \* None while null
  lastManualUpdate,     \* None while null
  dataSource,
  confidence,
  isSimulating,
  originalWeatherData,  \* None while null
  historicalAnalysis,   \* what updateHistoricalAnalysis was last handed
  metadata,             \* None while null
  anomalyLevel,
  \* --- useWeatherData hook (Spec): its environment
  now,                  \* Date.now(), in milliseconds since mount
  nextTick,             \* when the setInterval timer fires next; None before mount
  inflight,             \* the fetch('/api/weather') calls awaiting a response
  \* --- useWeatherData hook (Spec): history of the run
  shownBeforeSim,       \* what simulateWeather replaced, while it is the last operation
  scoredBeforeSim,      \* the scores and anomaly level it replaced, likewise
  lastManualFetch,      \* when the manual trigger last issued a fetch; None if never
  lastCall,             \* the operation of the hook that ran last, "" before mount
  \* --- historical pattern matcher (SpecMatch)
  mtWeather,            \* the currentWeather handed to findSimilarHistoricalEvent
  mtContext,            \* the era5Context handed to it, None when omitted
  mtEvent,              \* NotReturned, or the returned event (None for null)
  \* --- source adapters (SpecAdapter)
  adAdapter,            \* the adapter being called: "NASA", "AEMET", "ERA5", or ""
  adUpstream,           \* what the provider answers to the adapter's requests
  adResult,             \* NotReturned, or how the call ended
  \* --- DANASimulator component (SpecSimulator)
  dsIsSimulating,       \* the component's own isSimulating state
  simulationPhase,
  selectedScenario,     \* None while null
  showTimeline,
  acknowledgedSimulation,
  dsTimers,             \* the pending setTimeout callbacks, in firing order
  dsRuns,               \* how many scenarios simulateDANA has started
  dsLastCall,           \* the last operation of the component, None at first
  \* --- recommendation engine (SpecRecommend)
  rcWeather,            \* the currentWeather handed to generateHistoricalRecommendations
  rcScore,              \* the currentRiskScore handed to it, a rational
  rcValidation,         \* the era5Validation handed to it, None when omitted
  rcContext,            \* the era5Context handed to it, None when omitted
  rcResult              \* NotReturned, or the returned analysis

scoreVars == <<scWeather, scPlatform, scLevel, scScore>>

serverVars == <<srvPc, srvAemet, srvNasa, srvEra5, srvCopernicus, srvResponse>>

stateVars ==
  <<weatherData, platforms, loading, lastUpdate, lastManualUpdate, dataSource,
    confidence, isSimulating, originalWeatherData, historicalAnalysis,
    metadata, anomalyLevel>>

envVars == <<now, nextTick, inflight>>

historyVars == <<shownBeforeSim, scoredBeforeSim, lastManualFetch, lastCall>>

hookVars == <<stateVars, envVars, historyVars>>

matchVars == <<mtWeather, mtContext, mtEvent>>

adapterVars == <<adAdapter, adUpstream, adResult>>

simulatorStateVars ==
  <<dsIsSimulating, simulationPhase, selectedScenario, showTimeline,
    acknowledgedSimulation, dsTimers>>

simulatorVars == <<simulatorStateVars, dsRuns, dsLastCall>>

recommendVars == <<rcWeather, rcScore, rcValidation, rcContext, rcResult>>

libVars == <<matchVars, adapterVars, simulatorVars, recommendVars>>

vars == <<scoreVars, serverVars, hookVars, libVars>>

-----------------------------------------------------------------------------
(* Values shared by the specifications                                     *)

AnomalyLevels == {"normal", "moderate", "high", "extreme"}

Abs(x) == IF x < 0 THEN -x ELSE x

Min(a, b) == IF a < b THEN a ELSE b

Max(a, b) == IF a > b THEN a ELSE b

\* An optional value (a field that may be undefined, a state that may be
\* null): the empty sequence, or the value in a one-element sequence.
None == <<>>

Some(v) == <<v>>

\* Math.round of the rational num/den (den > 0): the nearest integer, a tie
\* going up.
MathRound(num, den) ==
  (num \div den) + (IF 2 * (num % den) >= den THEN 1 ELSE 0)

\* The result of a call: NotReturned before the call, Returned(v) after it.
NotReturned == <<>>

Returned(v) == <<v>>

\* The library functions below are not being called.
MatchIdle ==
  /\ mtWeather = None
  /\ mtContext = None
  /\ mtEvent = NotReturned

AdapterIdle ==
  /\ adAdapter = ""
  /\ adUpstream = None
  /\ adResult = NotReturned

\* DANASimulator.tsx, lines 42-47: the component as first rendered.
SimulatorIdle ==
  /\ dsIsSimulating = FALSE
  /\ simulationPhase = 0
  /\ selectedScenario = None
  /\ showTimeline = FALSE
  /\ acknowledgedSimulation = FALSE
  /\ dsTimers = <<>>
  /\ dsRuns = 0
  /\ dsLastCall = None

RecommendIdle ==
  /\ rcWeather = None
  /\ rcScore = None
  /\ rcValidation = None
  /\ rcContext = None
  /\ rcResult = NotReturned

LibIdle == MatchIdle /\ AdapterIdle /\ SimulatorIdle /\ RecommendIdle

-----------------------------------------------------------------------------
(* Numbers: the IEEE 754 double arithmetic of the JavaScript runtime       *)
(*                                                                         *)
(* The operators of this section compute what the runtime computes for    *)
(* +, -, *, /, Math.sqrt, Math.round, <, Math.max and Math.min on numbers, *)
(* and the double that a decimal literal or a parsed JSON number denotes:  *)
(* every result is the double nearest to the exact one, a tie going to the *)
(* even significand.                                                       *)

\* An operand of an operator is evaluated where the operator uses it.  The
\* operators of this section take a copy of an operand (LET v == a), so that
\* an intermediate number is computed once, and a number that several later
\* steps need is handed to the operator that carries out those steps;
\* Known(v) only looks at v, to have it computed before a recursion goes on.
Known(v) == v = v

\* A natural number of any size: its digits in base 2^14, the least
\* significant first, no leading zero digit (0 is the empty sequence).
LimbBits == 14

LimbBase == 16384

NatLimb(a, i) == IF i >= 1 /\ i <= Len(a) THEN a[i] ELSE 0

\* The digits without the leading zeros.
NatTrim(a) ==
  LET v == a
  IN  SubSeq(v, 1, Cardinality({i \in 1..Len(v) :
                                  \E k \in i..Len(v) : v[k] # 0}))

\* The number n, 0 <= n < 2^31.
NatOf(n) ==
  NatTrim(<<n % LimbBase, (n \div LimbBase) % LimbBase,
            n \div (LimbBase * LimbBase)>>)

\* The value of a, for a < 2^31.
NatValue(a) ==
  LET v == a
  IN  NatLimb(v, 1) + LimbBase * NatLimb(v, 2)
        + LimbBase * LimbBase * NatLimb(v, 3)

RECURSIVE NatAddFrom(_, _, _, _)
NatAddFrom(a, b, i, carry) ==
  IF i > Len(a) /\ i > Len(b)
    THEN IF carry = 0 THEN <<>> ELSE <<carry>>
    ELSE LET t == NatLimb(a, i) + NatLimb(b, i) + carry
         IN  <<t % LimbBase>> \o NatAddFrom(a, b, i + 1, t \div LimbBase)

NatAdd(a, b) ==
  LET u == a
      v == b
  IN  IF u = <<>> THEN v ELSE IF v = <<>> THEN u ELSE NatAddFrom(u, v, 1, 0)

\* a - b, for a >= b.
RECURSIVE NatSubFrom(_, _, _, _)
NatSubFrom(a, b, i, borrow) ==
  IF i > Len(a) THEN <<>>
  ELSE LET t == a[i] - NatLimb(b, i) - borrow
       IN  <<(t + LimbBase) % LimbBase>>
             \o NatSubFrom(a, b, i + 1, IF t < 0 THEN 1 ELSE 0)

NatSub(a, b) ==
  LET u == a
      v == b
  IN  IF u = <<>> \/ v = <<>> THEN u ELSE NatTrim(NatSubFrom(u, v, 1, 0))

\* -1, 0 or 1 as a is less than, equal to or greater than b: decided by the
\* highest digit in which they differ, looked for from digit i down.
RECURSIVE NatCompareFrom(_, _, _)
NatCompareFrom(a, b, i) ==
  IF i = 0 THEN 0
  ELSE IF NatLimb(a, i) < NatLimb(b, i) THEN -1
  ELSE IF NatLimb(a, i) > NatLimb(b, i) THEN 1
  ELSE NatCompareFrom(a, b, i - 1)

NatCompare(a, b) ==
  LET u == a
      v == b
  IN  NatCompareFrom(u, v, Max(Len(u), Len(v)))

\* a * k, for one digit k, 0 <= k <= 2^14.
RECURSIVE NatTimesLimbFrom(_, _, _, _)
NatTimesLimbFrom(a, k, i, carry) ==
  IF i > Len(a) THEN IF carry = 0 THEN <<>> ELSE <<carry>>
  ELSE LET t == a[i] * k + carry
       IN  <<t % LimbBase>> \o NatTimesLimbFrom(a, k, i + 1, t \div LimbBase)

NatTimesLimb(a, k) ==
  LET v == a
      d == k
  IN  IF d = 0 \/ Len(v) = 0 THEN <<>> ELSE NatTimesLimbFrom(v, d, 1, 0)

\* a * LimbBase^n
NatShiftLimbs(a, n) ==
  LET v == a
  IN  IF v = <<>> THEN <<>> ELSE [i \in 1..n |-> 0] \o v

RECURSIVE NatMulFrom(_, _, _)
NatMulFrom(a, b, i) ==
  IF i > Len(b) THEN <<>>
  ELSE LET rest == NatMulFrom(a, b, i + 1)
       IN  IF Known(rest)
             THEN NatAdd(NatShiftLimbs(NatTimesLimb(a, b[i]), i - 1), rest)
             ELSE <<>>

NatMul(a, b) ==
  LET u == a
      v == b
  IN  IF u = <<>> \/ v = <<>> THEN <<>> ELSE NatMulFrom(u, v, 1)

\* Quotient and remainder of a by a divisor d of one digit, 1 <= d <= 2^14:
\* long division, the digits of a from the top; q is the quotient so far
\* and rem what is left of a above.
RECURSIVE NatDivLimbFrom(_, _, _, _, _)
NatDivLimbFrom(a, d, i, q, rem) ==
  IF i = 0 THEN [q |-> NatTrim(q), r |-> rem]
  ELSE LET t    == rem * LimbBase + a[i]
           next == <<t \div d>> \o q
       IN  IF Known(next) THEN NatDivLimbFrom(a, d, i - 1, next, t % d)
           ELSE [q |-> q, r |-> rem]

NatDivLimb(a, d) ==
  LET v == a
  IN  NatDivLimbFrom(v, d, Len(v), <<>>, 0)

\* The number of bits of n, 0 <= n < 2^14.
BitLength(n) == CHOOSE k \in 0..LimbBits : 2 ^ k > n /\ (k = 0 \/ 2 ^ (k - 1) <= n)

NatBitLength(a) ==
  LET v == a
  IN  IF v = <<>> THEN 0 ELSE LimbBits * (Len(v) - 1) + BitLength(v[Len(v)])

NatIsOdd(a) == a # <<>> /\ a[1] % 2 = 1

\* a * 2^s
NatShiftLeft(a, s) ==
  NatShiftLimbs(NatTimesLimb(a, 2 ^ (s % LimbBits)), s \div LimbBits)

\* floor(a / 2^s), given n = s \div 14 and the quotient and remainder of
\* the digits of a from digit n + 1 up by 2^(s % 14): half is bit s - 1 of
\* a, the highest bit that is shifted out, and sticky whether a lower bit
\* of a is set.
NatShiftedRight(a, s, n, divided) ==
  LET qr   == divided
      bits == s % LimbBits
      top  == IF bits = 0 THEN NatLimb(a, n) ELSE qr.r
      unit == IF bits = 0 THEN LimbBase \div 2 ELSE 2 ^ (bits - 1)
  IN  [q |-> qr.q,
       half |-> top >= unit,
       sticky |-> top % unit # 0
                    \/ \E i \in 1..Min(IF bits = 0 THEN n - 1 ELSE n, Len(a)) :
                         a[i] # 0]

\* floor(a / 2^s) for s >= 1, with the half and sticky bits.
NatShiftRight(a, s) ==
  LET v == a
  IN  NatShiftedRight(v, s, s \div LimbBits,
                      NatDivLimb(SubSeq(v, s \div LimbBits + 1, Len(v)),
                                 2 ^ (s % LimbBits)))

\* The largest digit d with b * d <= t, for t < b * 2^14: the guess, or the
\* first digit below it that fits.
RECURSIVE NatQuotientDigit(_, _, _)
NatQuotientDigit(t, b, guess) ==
  LET g == guess
  IN  IF NatCompare(NatTimesLimb(b, g), t) <= 0 THEN g
      ELSE NatQuotientDigit(t, b, g - 1)

\* Quotient of a by b, and whether the division is exact, where the top
\* digit of b is at least 2^13: long division, the digits of a from the
\* top; q is the quotient so far and rem what is left of a above.  The
\* guess from the top digits of the running remainder t and of b is at most
\* 2 above the digit d.
RECURSIVE NatDivModFrom(_, _, _, _, _)
RECURSIVE NatDivModDigit(_, _, _, _, _)
RECURSIVE NatDivModTake(_, _, _, _, _, _)
NatDivModFrom(a, b, i, q, rem) ==
  IF i = 0 THEN [q |-> q, exact |-> rem = <<>>]
  ELSE NatDivModDigit(a, b, i, q, NatTrim(<<a[i]>> \o rem))

NatDivModDigit(a, b, i, q, running) ==
  LET t == running
      n == Len(b)
  IN  NatDivModTake(a, b, i, q, t,
        NatQuotientDigit(t, b,
          Min(LimbBase - 1,
              (NatLimb(t, n + 1) * LimbBase + NatLimb(t, n)) \div b[n])))

NatDivModTake(a, b, i, q, t, digit) ==
  LET d    == digit
      left == NatSub(t, NatTimesLimb(b, d))
      next == NatTrim(<<d>> \o q)
  IN  IF Known(left) /\ Known(next)
        THEN NatDivModFrom(a, b, i - 1, next, left)
        ELSE [q |-> q, exact |-> TRUE]

\* Quotient of a by b # 0, and whether the division is exact: both are
\* first scaled by the power of 2 that brings the top digit of b to at
\* least 2^13.
NatDivModScaled(a, b) ==
  LET u == a
      v == b
  IN  NatDivModFrom(u, v, Len(u), <<>>, <<>>)

NatDivMod(a, b) ==
  LET v == b
      s == LimbBits - BitLength(v[Len(v)])
  IN  NatDivModScaled(NatShiftLeft(a, s), NatShiftLeft(v, s))

\* floor(sqrt(n)) for n < 2^28.
IntSqrt(n) == CHOOSE r \in 0..LimbBase : r * r <= n /\ n < (r + 1) * (r + 1)

\* The largest digit d with (twice * 2^14 + d) * d <= t: the guess, or the
\* first digit below it that fits.
RECURSIVE NatRootDigit(_, _, _)
NatRootDigit(t, twice, guess) ==
  LET g == guess
  IN  IF NatCompare(NatTimesLimb(NatTrim(<<g>> \o twice), g), t) <= 0 THEN g
      ELSE NatRootDigit(t, twice, g - 1)

\* floor(sqrt(a)), and whether a is its square, for a of 2 * pairs digits
\* (leading zeros counted), digit by digit as in long division: two digits
\* of a are taken down at a time, root is the root so far, rem what is left
\* of a above, t the running remainder and twice the double of root.
RECURSIVE NatSqrtFrom(_, _, _, _)
RECURSIVE NatSqrtDigit(_, _, _, _, _)
RECURSIVE NatSqrtTake(_, _, _, _, _, _)
NatSqrtFrom(a, pairs, root, rem) ==
  IF pairs = 0 THEN [root |-> root, exact |-> rem = <<>>]
  ELSE NatSqrtDigit(a, pairs, root,
                    NatTrim(<<NatLimb(a, 2 * pairs - 1), NatLimb(a, 2 * pairs)>>
                              \o rem),
                    NatTimesLimb(root, 2))

NatSqrtDigit(a, pairs, root, running, doubled) ==
  LET t     == running
      twice == doubled
      n     == Len(twice)
  IN  NatSqrtTake(a, pairs, root, t, twice,
        NatRootDigit(t, twice,
          IF twice = <<>> THEN IntSqrt(NatValue(t))
          ELSE Min(LimbBase - 1,
                   (NatLimb(t, n + 2) * LimbBase + NatLimb(t, n + 1))
                     \div twice[n])))

NatSqrtTake(a, pairs, root, t, twice, digit) ==
  LET d    == digit
      left == NatSub(t, NatTimesLimb(NatTrim(<<d>> \o twice), d))
      next == NatTrim(<<d>> \o root)
  IN  IF Known(left) /\ Known(next)
        THEN NatSqrtFrom(a, pairs - 1, next, left)
        ELSE [root |-> root, exact |-> TRUE]

NatSqrt(a) ==
  LET v == a
  IN  NatSqrtFrom(v, (Len(v) + 1) \div 2, <<>>, <<>>)

\* A double: sign, 53-bit significand and exponent, the value being
\* (-1)^neg * man * 2^exp with 2^52 <= man < 2^53; zero has man = 0.  (The
\* values of this program are far from the ends of the exponent range.)
DoubleZero == [neg |-> FALSE, man |-> <<>>, exp |-> 0]

\* The double (-1)^neg * man * 2^e for 2^52 <= man <= 2^53: a significand
\* of 2^53 (a carry out of the rounding) is 2^52 with the next exponent.
DoubleCarried(neg, man, e) ==
  LET m == man
  IN  IF NatBitLength(m) > 53
        THEN [neg |-> neg, man |-> <<0, 0, 0, 1024>>, exp |-> e + 1]
        ELSE [neg |-> neg, man |-> m, exp |-> e]

\* The double nearest to (-1)^neg * (q + h) * 2^e, where shifted holds q and
\* the bits of h: h > 1/2, or h = 1/2 and q odd, rounds up.
DoubleRoundedUp(neg, shifted, e, sticky) ==
  LET t == shifted
  IN  DoubleCarried(neg,
                    IF t.half /\ (sticky \/ t.sticky \/ NatIsOdd(t.q))
                      THEN NatAdd(t.q, <<1>>)
                      ELSE t.q,
                    e)

\* The double nearest to (-1)^neg * (a + f) * 2^e, where 0 <= f < 1 and f > 0
\* exactly when sticky: round to nearest, ties to the even significand.
\* bits is the number of bits of a.
DoubleRoundedBits(neg, a, bits, e, sticky) ==
  LET len == bits
  IN  IF len = 0 THEN DoubleZero
      ELSE IF len <= 53
        THEN [neg |-> neg, man |-> NatShiftLeft(a, 53 - len),
              exp |-> e - (53 - len)]
      ELSE DoubleRoundedUp(neg, NatShiftRight(a, len - 53), e + (len - 53),
                           sticky)

DoubleRounded(neg, a, e, sticky) ==
  LET v == a
  IN  DoubleRoundedBits(neg, v, NatBitLength(v), e, sticky)

\* The double nearest to (-1)^neg * num / den, given quotient and remainder
\* of num * 2^70 by den.
DoubleOfDivided(neg, divided) ==
  LET qr == divided
  IN  DoubleRounded(neg, qr.q, -(5 * LimbBits), qr.r # 0)

\* The double a decimal literal denotes, or a parsed JSON number: the
\* double nearest to num / den, for 1 <= den <= 2^14.
DoubleOf(num, den) ==
  DoubleOfDivided(num < 0,
                  NatDivLimb(NatShiftLeft(NatOf(Abs(num)), 5 * LimbBits), den))

DoubleNeg(x) ==
  LET u == x
  IN  IF u.man = <<>> THEN u ELSE [u EXCEPT !.neg = ~u.neg]

DoubleAbs(x) == [x EXCEPT !.neg = FALSE]

\* x + y for x and y # 0, given their significands au and av over the
\* smaller exponent e of the two, and how au compares with av.
DoubleAddAligned(x, y, e, au, av, compared) ==
  LET c == compared
  IN  IF x.neg # y.neg /\ c = 0 THEN DoubleZero
      ELSE DoubleRounded(IF x.neg = y.neg \/ c > 0 THEN x.neg ELSE y.neg,
                         IF x.neg = y.neg THEN NatAdd(au, av)
                         ELSE NatSub(IF c > 0 THEN au ELSE av,
                                     IF c > 0 THEN av ELSE au),
                         e, FALSE)

DoubleAddShifted(x, y, e, shiftedX, shiftedY) ==
  LET au == shiftedX
      av == shiftedY
  IN  DoubleAddAligned(x, y, e, au, av, NatCompare(au, av))

\* x + y
DoubleAdd(x, y) ==
  LET u == x
      v == y
      e == Min(u.exp, v.exp)
  IN  IF u.man = <<>> THEN v
      ELSE IF v.man = <<>> THEN u
      ELSE DoubleAddShifted(u, v, e, NatShiftLeft(u.man, u.exp - e),
                            NatShiftLeft(v.man, v.exp - e))

\* x - y
DoubleSub(x, y) == DoubleAdd(x, DoubleNeg(y))

\* x * y
DoubleMul(x, y) ==
  LET u == x
      v == y
  IN  IF u.man = <<>> \/ v.man = <<>> THEN DoubleZero
      ELSE DoubleRounded(u.neg # v.neg, NatMul(u.man, v.man), u.exp + v.exp,
                         FALSE)

\* The double nearest to (-1)^neg * 2^e * the quotient of the division that
\* gave divided.
DoubleOfQuotient(neg, divided, e) ==
  LET qr == divided
  IN  DoubleRounded(neg, qr.q, e, ~qr.exact)

\* x / y, for y # 0
DoubleDiv(x, y) ==
  LET u == x
      v == y
  IN  IF u.man = <<>> \/ v.man = <<>> THEN DoubleZero
      ELSE DoubleOfQuotient(u.neg # v.neg,
                            NatDivMod(NatShiftLeft(u.man, 4 * LimbBits), v.man),
                            u.exp - v.exp - 4 * LimbBits)

\* The double nearest to 2^e * the square root that gave rooted.
DoubleOfRoot(rooted, e) ==
  LET r == rooted
  IN  DoubleRounded(FALSE, r.root, e, ~r.exact)

\* Math.sqrt(x), for x >= 0
DoubleSqrt(x) ==
  LET u == x
      k == 4 * LimbBits + (u.exp % 2)
  IN  IF u.man = <<>> THEN DoubleZero
      ELSE DoubleOfRoot(NatSqrt(NatShiftLeft(u.man, k)), (u.exp - k) \div 2)

\* -1, 0 or 1 as x is negative, zero or positive.
DoubleSign(x) == IF x.man = <<>> THEN 0 ELSE IF x.neg THEN -1 ELSE 1

\* -1, 0 or 1 as x is less than, equal to or greater than y: by the signs,
\* then by the exponents (a significand has 53 bits), then by the
\* significands.
DoubleCompare(x, y) ==
  LET u == x
      v == y
  IN  IF DoubleSign(u) # DoubleSign(v)
        THEN IF DoubleSign(u) < DoubleSign(v) THEN -1 ELSE 1
      ELSE IF u.exp # v.exp
        THEN IF u.exp < v.exp THEN -DoubleSign(u) ELSE DoubleSign(u)
      ELSE DoubleSign(u) * NatCompare(u.man, v.man)

DoubleLess(x, y) == DoubleCompare(x, y) < 0

\* Math.max(x, y) and Math.min(x, y)
DoubleMax(x, y) ==
  LET u == x
      v == y
  IN  IF DoubleLess(u, v) THEN v ELSE u

DoubleMin(x, y) ==
  LET u == x
      v == y
  IN  IF DoubleLess(v, u) THEN v ELSE u

\* Math.round(x) = floor(x + 1/2), an integer, given the integer part of
\* 2 * |x| and the bits of its fraction.
DoubleRoundOfTwice(neg, doubled) ==
  LET twice == doubled
      n     == NatValue(twice.q)
  IN  IF ~neg THEN (n + 1) \div 2
      ELSE IF n % 2 = 1 /\ ~(twice.half \/ twice.sticky) THEN -((n - 1) \div 2)
      ELSE -((n + 1) \div 2)

\* Math.round(x), for |x| < 2^29
DoubleRoundToInt(x) ==
  LET u == x
  IN  IF u.man = <<>> THEN 0
      ELSE IF u.exp + 1 >= 0
        THEN DoubleRoundOfTwice(u.neg, [q |-> NatShiftLeft(u.man, u.exp + 1),
                                        half |-> FALSE, sticky |-> FALSE])
      ELSE DoubleRoundOfTwice(u.neg, NatShiftRight(u.man, -(u.exp + 1)))

-----------------------------------------------------------------------------
(* Risk scoring engine: useWeatherData.ts, calculateRiskScore              *)

\* era5AnomalyToRiskFactor, in hundredths.
era5AnomalyToRiskFactor_Flat(level) ==
  IF level = "extreme" THEN 120 ELSE 100

era5AnomalyToRiskFactor(level) ==
  CASE level = "extreme"  -> 120
    [] level = "high"     -> 115
    [] level = "moderate" -> 105
    [] level = "normal"   -> 100
    [] OTHER             -> 100

RECURSIVE SumSeq(_)
SumSeq(q) == IF q = <<>> THEN 0 ELSE q[1] + SumSeq(Tail(q))

\* A rational number, kept as numerator over denominator.
Rat(num, den) == [num |-> num, den |-> den]

RECURSIVE GCD(_, _)
GCD(a, b) == IF b = 0 THEN a ELSE GCD(b, a % b)

\* num / den in lowest terms, den > 0.
Reduced(num, den) ==
  LET g == GCD(IF num < 0 THEN -num ELSE num, den)
  IN  Rat(num \div g, den \div g)

\* The least common denominator of the values from the i-th on.
RECURSIVE CommonDen(_, _)
CommonDen(values, i) ==
  IF i > Len(values) THEN 1
  ELSE LET rest == CommonDen(values, i + 1)
       IN  (values[i].den \div GCD(values[i].den, rest)) * rest

\* The numerators of the values over their least common denominator.
Scaled(values) ==
  LET scale == CommonDen(values, 1)
  IN  [i \in 1..Len(values) |-> values[i].num * (scale \div values[i].den)]

\* A number of a reading: num / den is what it is in exact arithmetic, in
\* hundredths and in lowest terms, and dbl is the double the source has for
\* it.
Number(num, den, dbl) == [num |-> num, den |-> den, dbl |-> dbl]

\* A number of v hundredths as parsed from JSON or written as a literal.
NumberOf(v) == Number(v, 1, DoubleOf(v, 100))

\* The double a reading holds for a field.
fieldDouble(weather, field) == weather[field].dbl

\* -1, 0 or 1 as the number is less than, equal to or greater than a bound
\* given in hundredths.  A number's double is within 10^-9 of its exact
\* value: the exact value decides unless it is the bound, where the double
\* decides.
compareToBound(value, bound) ==
  LET v == value
  IN  IF v.num = bound * v.den
        THEN DoubleCompare(v.dbl, DoubleOf(bound, 100))
      ELSE IF v.num > bound * v.den THEN 1 ELSE -1

\* weather[field] > bound, the bound in hundredths.
isAbove(weather, field, bound) == compareToBound(weather[field], bound) > 0

\* weather[field] < bound, likewise.
isBelow(weather, field, bound) == compareToBound(weather[field], bound) < 0

\* base + (value - bound) * slope for a number of a reading, in exact
\* arithmetic: base in thousandths of a point, bound in hundredths, slope
\* in thousandths of a point per hundredth.
ramp(base, value, bound, slope) ==
  LET v == value
  IN  Reduced(base * v.den + (v.num - bound * v.den) * slope, v.den)

\* Math.min(100, factor), the factor in thousandths of a point.
cappedFactor(factor) ==
  LET f == factor
  IN  IF f.num > 100000 * f.den THEN Rat(100000, 1) ELSE f

\* The six factors, each in thousandths of a point (53.5 points is 53500).
\* The three that grow with the reading are rational numbers: they are
\* computed from the reading as it is.
precipitationFactor_SlopeFromZero(weather) ==
  IF isAbove(weather, "precipitation", 500)
    THEN cappedFactor(ramp(50000, weather.precipitation, 500, 100))
    ELSE IF isAbove(weather, "precipitation", 50)
      THEN ramp(20000, weather.precipitation, 0, 67)
      ELSE Rat(0, 1)

precipitationFactor(weather) ==
  IF isAbove(weather, "precipitation", 500)
    THEN cappedFactor(ramp(50000, weather.precipitation, 500, 100))
    ELSE IF isAbove(weather, "precipitation", 50)
      THEN ramp(20000, weather.precipitation, 50, 67)
      ELSE Rat(0, 1)

windFactor(weather) ==
  IF isAbove(weather, "windSpeed", 1400)
    THEN cappedFactor(ramp(70000, weather.windSpeed, 1400, 30))
    ELSE IF isAbove(weather, "windSpeed", 800)
      THEN ramp(30000, weather.windSpeed, 800, 67)
      ELSE Rat(0, 1)

exposureFactor_IgnoresRoof(platform) == platform.exposure * 1000

exposureFactor(platform) ==
  IF platform.isRoofed THEN 0 ELSE platform.exposure * 1000

humidityFactor(weather) ==
  IF isAbove(weather, "humidity", 8500) THEN 60000 ELSE 0

tempFactor(weather) ==
  IF isAbove(weather, "temperature", 3500)
    THEN ramp(40000, weather.temperature, 3500, 50)
    ELSE IF isBelow(weather, "temperature", 0)
      THEN Reduced(60000 * weather.temperature.den
                     + Abs(weather.temperature.num) * 50,
                   weather.temperature.den)
      ELSE Rat(0, 1)

pressureFactor(weather) ==
  IF isBelow(weather, "pressure", 100000) THEN 40000 ELSE 0

\* factor * weight, the weight in hundredths.
weightedFactor(factor, weight) ==
  LET f == factor
  IN  Rat(f.num * weight, f.den)

\* The sum of rational numbers, in lowest terms.
sumOfTerms(terms) ==
  LET values == terms
  IN  Reduced(SumSeq(Scaled(values)), CommonDen(values, 1))

\* score after the six `score += factor * weight` lines, in units of 10^-5
\* (the weights are in hundredths), a rational number.
weightedScore(weather, platform) ==
  sumOfTerms(<< weightedFactor(precipitationFactor(weather), 30),
                weightedFactor(windFactor(weather), 25),
                Rat(exposureFactor(platform) * 15, 1),
                Rat(humidityFactor(weather) * 10, 1),
                weightedFactor(tempFactor(weather), 10),
                Rat(pressureFactor(weather) * 10, 1) >>)

\* The same lines in the doubles of the source.
precipitationFactorDouble(weather) ==
  LET p == fieldDouble(weather, "precipitation")
  IN  IF isAbove(weather, "precipitation", 500)
        THEN DoubleMin(DoubleOf(100, 1),
                       DoubleAdd(DoubleOf(50, 1),
                                 DoubleMul(DoubleSub(p, DoubleOf(5, 1)),
                                           DoubleOf(10, 1))))
        ELSE IF isAbove(weather, "precipitation", 50)
          THEN DoubleAdd(DoubleOf(20, 1),
                         DoubleMul(DoubleSub(p, DoubleOf(5, 10)),
                                   DoubleOf(67, 10)))
          ELSE DoubleZero

windFactorDouble(weather) ==
  LET w == fieldDouble(weather, "windSpeed")
  IN  IF isAbove(weather, "windSpeed", 1400)
        THEN DoubleMin(DoubleOf(100, 1),
                       DoubleAdd(DoubleOf(70, 1),
                                 DoubleMul(DoubleSub(w, DoubleOf(14, 1)),
                                           DoubleOf(3, 1))))
        ELSE IF isAbove(weather, "windSpeed", 800)
          THEN DoubleAdd(DoubleOf(30, 1),
                         DoubleMul(DoubleSub(w, DoubleOf(8, 1)),
                                   DoubleOf(67, 10)))
          ELSE DoubleZero

exposureFactorDouble(platform) ==
  IF platform.isRoofed THEN DoubleZero
  ELSE DoubleMul(DoubleOf(platform.exposure, 100), DoubleOf(100, 1))

humidityFactorDouble(weather) ==
  IF isAbove(weather, "humidity", 8500) THEN DoubleOf(60, 1) ELSE DoubleZero

tempFactorDouble(weather) ==
  LET t == fieldDouble(weather, "temperature")
  IN  IF isAbove(weather, "temperature", 3500)
        THEN DoubleAdd(DoubleOf(40, 1),
                       DoubleMul(DoubleSub(t, DoubleOf(35, 1)), DoubleOf(5, 1)))
        ELSE IF isBelow(weather, "temperature", 0)
          THEN DoubleAdd(DoubleOf(60, 1), DoubleMul(DoubleAbs(t), DoubleOf(5, 1)))
          ELSE DoubleZero

pressureFactorDouble(weather) ==
  IF isBelow(weather, "pressure", 100000) THEN DoubleOf(40, 1) ELSE DoubleZero

\* adjustedScore as the source holds it: score after each of the six
\* `score += factor * weight` lines, then score * era5Factor.
adjustedScoreDouble(weather, platform, era5Factor) ==
  LET score1 == DoubleAdd(DoubleZero,
                          DoubleMul(precipitationFactorDouble(weather),
                                    DoubleOf(30, 100)))
      score2 == DoubleAdd(score1, DoubleMul(windFactorDouble(weather),
                                            DoubleOf(25, 100)))
      score3 == DoubleAdd(score2, DoubleMul(exposureFactorDouble(platform),
                                            DoubleOf(15, 100)))
      score4 == DoubleAdd(score3, DoubleMul(humidityFactorDouble(weather),
                                            DoubleOf(10, 100)))
      score5 == DoubleAdd(score4, DoubleMul(tempFactorDouble(weather),
                                            DoubleOf(10, 100)))
      score6 == DoubleAdd(score5, DoubleMul(pressureFactorDouble(weather),
                                            DoubleOf(10, 100)))
  IN  DoubleMul(score6, DoubleOf(era5Factor, 100))

\* Math.round(adjustedScore), adjustedScore = score * era5Factor.  The
\* score is whole points and a rest below one point; hundredths is the
\* adjusted score in hundredths of a point, in exact arithmetic and rounded
\* down.  The doubles of the source are within 10^-12 of the exact score:
\* they round as it does unless it is within a hundredth of halfway between
\* two integers, where the doubles themselves decide.
roundOfProduct(weightedSum, era5Factor, adjustedScore) ==
  LET score == weightedSum
      onePoint == 100000 * score.den
      points == score.num \div onePoint
      rest == score.num % onePoint
      hundredths == points * era5Factor + (rest * era5Factor) \div onePoint
      fromHalfway == Abs((hundredths % 100) - 50)
  IN  IF fromHalfway <= 1
        THEN DoubleRoundToInt(adjustedScore)
        ELSE MathRound(hundredths, 100)

roundedScore(weather, platform, era5Factor) ==
  roundOfProduct(weightedScore(weather, platform), era5Factor,
                 adjustedScoreDouble(weather, platform, era5Factor))

calculateRiskScore_NoClamp(weather, platform, era5Factor) ==
  roundedScore(weather, platform, era5Factor)

calculateRiskScore(weather, platform, era5Factor) ==
  Min(roundedScore(weather, platform, era5Factor), 100)


-----------------------------------------------------------------------------
(* Weather query: app/api/weather/route.ts                                 *)

\* era5Data.map(d => d[field])
FieldValues(era5Data, field) == [i \in 1..Len(era5Data) |-> era5Data[i][field]]

\* values.reduce((a, b) => a + b, 0) in doubles: the sum from the left.
RECURSIVE DoubleSumFrom(_, _, _)
DoubleSumFrom(values, i, acc) ==
  LET sum == acc
  IN  IF i > Len(values) \/ ~Known(sum) THEN sum
      ELSE DoubleSumFrom(values, i + 1, DoubleAdd(sum, values[i]))

DoubleSum(values) ==
  LET v == values
  IN  IF Known(v) THEN DoubleSumFrom(v, 1, DoubleZero) ELSE DoubleZero

\* The values of one field over the hourly entries of a day, the null
\* entries skipped, in the order of the entries.
dayValues(hours, date, field) ==
  LET own == SelectSeq(hours, LAMBDA h : h.date = date /\ h[field] # None)
  IN  [i \in 1..Len(own) |-> own[i][field][1]]

\* The sum over a day's hours of one field, null entries skipped.
daySum(hours, date, field) == SumSeq(dayValues(hours, date, field))

\* The same sum as the forEach of fetchERA5HistoricalData accumulates it:
\* days[date][field] is 0 and then += each value in turn.
daySumDouble(hours, date, field) ==
  LET values == dayValues(hours, date, field)
  IN  DoubleSum([i \in 1..Len(values) |-> DoubleOf(values[i], 100)])

\* day[field] / 24
dailyMean(hours, date, field) ==
  LET mean == Reduced(daySum(hours, date, field), 24)
  IN  Number(mean.num, mean.den,
             DoubleDiv(daySumDouble(hours, date, field), DoubleOf(24, 1)))

\* days[date]: a day's sums, precipitation apart, and their division by 24.
dayMeans(hours, date) ==
  [field \in {"temperature", "humidity", "windSpeed", "pressure"} |->
     dailyMean(hours, date, field)]

\* The record that Object.values(days).map(...) makes of a day's means and
\* its rain.
era5Record(date, means, rain) ==
  LET day == means
  IN  [date |-> date,
       temperature |-> day.temperature,
       humidity |-> day.humidity,
       precipitation |-> rain,
       windSpeed |-> day.windSpeed,
       pressure |-> day.pressure]

\* One record of the result of fetchERA5HistoricalData: precipitation as
\* the day's sum and the other fields as sum / 24.
era5Day(hours, date) ==
  era5Record(date, dayMeans(hours, date),
             Number(daySum(hours, date, "precipitation"), 1,
                    daySumDouble(hours, date, "precipitation")))

\* The mean of the values in exact arithmetic.
exactMean(values) == Rat(SumSeq(Scaled(values)), Len(values) * CommonDen(values, 1))

\* The comparison normalizedAnomaly > k of calculateAnomalyLevel in exact
\* arithmetic, without the square root: with n values of sum S,
\* |current - S/n| / stdDev > k exactly when
\* (n*current - S)^2 > k^2 * (n*SumOfSquares - S^2).  The values are taken
\* over their common denominator (scale) and relative to the first one,
\* which changes neither side.
Deviations(currentValue, historicalValues) ==
  LET n      == Len(historicalValues)
      scale  == CommonDen(historicalValues, 1)
      scaled == Scaled(historicalValues)
      base   == scaled[1]
      rel    == [i \in 1..n |-> scaled[i] - base]
      S      == SumSeq(rel)
      Q      == SumSeq([i \in 1..n |-> rel[i] * rel[i]])
  IN  [anomalyTimesN  |-> n * (currentValue * scale - base) - S,
       varianceTimesN2 |-> n * Q - S * S,
       n |-> n,
       scale |-> scale]

normalizedAnomalyExceeds(d, k) ==
  d.varianceTimesN2 > 0
    /\ d.anomalyTimesN * d.anomalyTimesN > k * k * d.varianceTimesN2

\* The doubles of the source are within a few units in the last place of
\* the exact values, and the exact sides of a comparison that are not equal
\* differ by far more: exact arithmetic decides normalizedAnomaly > k and
\* stdDev > 0 unless the exact variance is 0 or the exact normalized anomaly
\* is k, where the doubles themselves decide.
DoublesDecide(d) ==
  \/ d.varianceTimesN2 = 0
  \/ \E k \in 1..3 :
       d.anomalyTimesN * d.anomalyTimesN = k * k * d.varianceTimesN2

\* x * x, and Math.pow(x, 2)
DoubleSquare(x) ==
  LET v == x
  IN  DoubleMul(v, v)

\* values.reduce((a, b) => a + b, 0) / values.length
DoubleMean(values) ==
  LET v == values
  IN  DoubleDiv(DoubleSum(v), DoubleOf(Len(v), 1))

\* Math.sqrt(variance), given the mean.
standardDeviation(values, mean) ==
  DoubleSqrt(DoubleMean([i \in 1..Len(values) |->
                           DoubleSquare(DoubleSub(values[i], mean))]))

\* stdDev > 0 ? Math.abs(anomaly) / stdDev : 0
normalizedAnomalyOf(anomaly, deviation) ==
  LET stdDev == deviation
  IN  IF DoubleLess(DoubleZero, stdDev)
        THEN DoubleDiv(DoubleAbs(anomaly), stdDev)
        ELSE DoubleZero

\* normalizedAnomaly, given the historical mean.
normalizedAnomalyFrom(currentValue, values, average) ==
  LET mean == average
  IN  IF Known(mean)
        THEN normalizedAnomalyOf(DoubleSub(DoubleOf(currentValue, 100), mean),
                                 standardDeviation(values, mean))
        ELSE DoubleZero

\* normalizedAnomaly as the source computes it.
normalizedAnomalyDouble(currentValue, historicalValues) ==
  LET values == [i \in 1..Len(historicalValues) |-> historicalValues[i].dbl]
  IN  normalizedAnomalyFrom(currentValue, values, DoubleMean(values))

\* The result of calculateAnomalyLevel, given the deviations in exact
\* arithmetic and normalizedAnomaly in doubles.
anomalyLevelOf_NonStrict(deviations, normalized) ==
  LET d == deviations
      normalizedAnomaly == normalized
  IN  [anomaly |-> Rat(d.anomalyTimesN, d.n * d.scale),
       level |->
         IF DoublesDecide(d)
           THEN IF ~DoubleLess(normalizedAnomaly, DoubleOf(3, 1))
                  THEN "extreme"
                ELSE IF ~DoubleLess(normalizedAnomaly, DoubleOf(2, 1))
                  THEN "high"
                ELSE IF ~DoubleLess(normalizedAnomaly, DoubleOf(1, 1))
                  THEN "moderate"
                ELSE "normal"
         ELSE IF d.varianceTimesN2 > 0
                   /\ d.anomalyTimesN * d.anomalyTimesN >= 9 * d.varianceTimesN2
           THEN "extreme"
         ELSE IF d.varianceTimesN2 > 0
                   /\ d.anomalyTimesN * d.anomalyTimesN >= 4 * d.varianceTimesN2
           THEN "high"
         ELSE IF d.varianceTimesN2 > 0
                   /\ d.anomalyTimesN * d.anomalyTimesN >= d.varianceTimesN2
           THEN "moderate"
         ELSE "normal"]

anomalyLevelOf(deviations, normalized) ==
  LET d == deviations
      normalizedAnomaly == normalized
  IN  [anomaly |-> Rat(d.anomalyTimesN, d.n * d.scale),
       level |->
         IF DoublesDecide(d)
           THEN IF DoubleLess(DoubleOf(3, 1), normalizedAnomaly)
                  THEN "extreme"
                ELSE IF DoubleLess(DoubleOf(2, 1), normalizedAnomaly)
                  THEN "high"
                ELSE IF DoubleLess(DoubleOf(1, 1), normalizedAnomaly)
                  THEN "moderate"
                ELSE "normal"
         ELSE IF normalizedAnomalyExceeds(d, 3) THEN "extreme"
         ELSE IF normalizedAnomalyExceeds(d, 2) THEN "high"
         ELSE IF normalizedAnomalyExceeds(d, 1) THEN "moderate"
         ELSE "normal"]

calculateAnomalyLevel(currentValue, historicalValues, threshold) ==
  IF Len(historicalValues) = 0
    THEN [anomaly |-> Rat(0, 1), level |-> "normal"]
    ELSE anomalyLevelOf(Deviations(currentValue, historicalValues),
                        normalizedAnomalyDouble(currentValue, historicalValues))

anomalyScore(level) ==
  CASE level = "extreme"  -> 4
    [] level = "high"     -> 3
    [] level = "moderate" -> 2
    [] OTHER              -> 1

climatologicalFallback_FromCurrent(currentWeather) ==
  [historicalAvg |->
     [temperature |-> Rat(currentWeather.temperature, 1),
      humidity |-> Rat(currentWeather.humidity, 1),
      precipitation |-> Rat(currentWeather.precipitation, 1),
      windSpeed |-> Rat(currentWeather.windSpeed, 1),
      pressure |-> Rat(currentWeather.pressure, 1)],
   anomaly |->
     [temperature |-> Rat(0, 1), humidity |-> Rat(0, 1),
      precipitation |-> Rat(0, 1), windSpeed |-> Rat(0, 1),
      pressure |-> Rat(0, 1)],
   validation |->
     [anomalyLevel |-> "normal", confidence |-> 30, similarDaysFound |-> 0,
      dataSource |-> "Climatological fallback"],
   source |-> "Copernicus ERA5",
   status |-> "error",
   error |-> "No ERA5 historical data available"]

\* The catch branch of fetchCopernicusHistoricalContext: climatological
\* averages for Madrid.
climatologicalFallback(currentWeather) ==
  [historicalAvg |->
     [temperature |-> Rat(1550, 1), humidity |-> Rat(6400, 1),
      precipitation |-> Rat(140, 1), windSpeed |-> Rat(820, 1),
      pressure |-> Rat(101320, 1)],
   anomaly |->
     [temperature |-> Rat(currentWeather.temperature - 1550, 1),
      humidity |-> Rat(currentWeather.humidity - 6400, 1),
      precipitation |-> Rat(currentWeather.precipitation - 140, 1),
      windSpeed |-> Rat(currentWeather.windSpeed - 820, 1),
      pressure |-> Rat(currentWeather.pressure - 101320, 1)],
   validation |->
     [anomalyLevel |-> "normal", confidence |-> 30, similarDaysFound |-> 0,
      dataSource |-> "Climatological fallback"],
   source |-> "Copernicus ERA5",
   status |-> "error",
   error |-> "No ERA5 historical data available"]

\* The threshold argument of each of the four calls of
\* calculateAnomalyLevel.
anomalyThreshold(field) ==
  CASE field = "temperature"   -> 2
    [] field = "precipitation" -> 5
    [] field = "windSpeed"     -> 3
    [] field = "pressure"      -> 10

\* tempAnomaly, precipAnomaly, windAnomaly and pressureAnomaly, by field.
fieldAnomalies(currentWeather, era5Data) ==
  [field \in {"temperature", "precipitation", "windSpeed", "pressure"} |->
     calculateAnomalyLevel(currentWeather[field], FieldValues(era5Data, field),
                           anomalyThreshold(field))]

\* The success result of fetchCopernicusHistoricalContext, given the four
\* anomalies.
historicalContextOf(currentWeather, era5Data, anomalies) ==
  LET a == anomalies
      n == Len(era5Data)
      tempAnomaly == a.temperature
      precipAnomaly == a.precipitation
      windAnomaly == a.windSpeed
      pressureAnomaly == a.pressure
      anomalyLevels ==
        <<tempAnomaly.level, precipAnomaly.level, windAnomaly.level,
          pressureAnomaly.level>>
      maxAnomalyScore ==
        CHOOSE m \in 1..4 :
          /\ \E i \in 1..4 : anomalyScore(anomalyLevels[i]) = m
          /\ \A i \in 1..4 : anomalyScore(anomalyLevels[i]) <= m
      overallAnomalyLevel ==
        CASE maxAnomalyScore = 4 -> "extreme"
          [] maxAnomalyScore = 3 -> "high"
          [] maxAnomalyScore = 2 -> "moderate"
          [] OTHER               -> "normal"
      normalCount ==
        Cardinality({i \in 1..4 : anomalyLevels[i] = "normal"})
      humidityAvg == exactMean(FieldValues(era5Data, "humidity"))
  IN  [historicalAvg |->
         [temperature |-> exactMean(FieldValues(era5Data, "temperature")),
          humidity |-> humidityAvg,
          precipitation |->
            exactMean(FieldValues(era5Data, "precipitation")),
          windSpeed |-> exactMean(FieldValues(era5Data, "windSpeed")),
          pressure |-> exactMean(FieldValues(era5Data, "pressure"))],
       anomaly |->
         [temperature |-> tempAnomaly.anomaly,
          humidity |->
            Rat(humidityAvg.den * currentWeather.humidity
                  - humidityAvg.num, humidityAvg.den),
          precipitation |-> precipAnomaly.anomaly,
          windSpeed |-> windAnomaly.anomaly,
          pressure |-> pressureAnomaly.anomaly],
       validation |->
         [anomalyLevel |-> overallAnomalyLevel,
          confidence |-> Min(95, 50 + n * 10 + normalCount * 5),
          similarDaysFound |-> n,
          dataSource |-> "Open-Meteo ERA5"],
       source |-> "Copernicus ERA5",
       status |-> "success",
       error |-> ""]

\* fetchCopernicusHistoricalContext, given what fetchERA5HistoricalData
\* returned (the empty series when the request failed).
fetchCopernicusHistoricalContext(currentWeather, era5Data) ==
  IF Len(era5Data) = 0
    THEN climatologicalFallback(currentWeather)
    ELSE historicalContextOf(currentWeather, era5Data,
                             fieldAnomalies(currentWeather, era5Data))

\* The sums of one field in the doubles of the source: sum and count start
\* at 0, and each source that carries the field adds value * weight to the
\* one and weight to the other, AEMET first.
RECURSIVE weightedSums(_, _, _)
weightedSums(carried, i, acc) ==
  LET sums == acc
  IN  IF i > Len(carried) \/ ~Known(sums) THEN sums
      ELSE weightedSums(carried, i + 1,
             [sum |-> DoubleAdd(sums.sum,
                                DoubleMul(DoubleOf(carried[i].value, 100),
                                          DoubleOf(carried[i].weight, 100))),
              count |-> DoubleAdd(sums.count,
                                  DoubleOf(carried[i].weight, 100))])

\* sum / count
weightedQuotient(weighted) ==
  LET sums == weighted
  IN  DoubleDiv(sums.sum, sums.count)

\* The values of a field with their weights (in hundredths), over the
\* sources that carry it.
carriedValues(a, weightA, b, weightB) ==
     (IF a # None THEN <<[value |-> a[1], weight |-> weightA]>> ELSE <<>>)
  \o (IF b # None THEN <<[value |-> b[1], weight |-> weightB]>> ELSE <<>>)

fuseField_EqualWeights(aemetData, nasaData, field, default) ==
  LET a == IF aemetData.status = "success" THEN aemetData[field] ELSE None
      b == IF nasaData.status = "success" THEN nasaData[field] ELSE None
      sum   == (IF a # None THEN a[1] * 50 ELSE 0)
             + (IF b # None THEN b[1] * 50 ELSE 0)
      count == (IF a # None THEN 50 ELSE 0) + (IF b # None THEN 50 ELSE 0)
      mean  == Reduced(sum, count)
  IN  IF count > 0
        THEN Number(mean.num, mean.den,
                    weightedQuotient(
                      weightedSums(carriedValues(a, 50, b, 50), 1,
                                   [sum |-> DoubleZero, count |-> DoubleZero])))
        ELSE NumberOf(default)

\* One fused field: the weighted average over the successful sources that
\* carry it (AEMET 0.6, NASA 0.4), the default when none does.  The weights
\* are in hundredths; the result holds the exact quotient, in lowest terms,
\* and the double that the source computes for it.
fuseField(aemetData, nasaData, field, default) ==
  LET a == IF aemetData.status = "success" THEN aemetData[field] ELSE None
      b == IF nasaData.status = "success" THEN nasaData[field] ELSE None
      sum   == (IF a # None THEN a[1] * 60 ELSE 0)
             + (IF b # None THEN b[1] * 40 ELSE 0)
      count == (IF a # None THEN 60 ELSE 0) + (IF b # None THEN 40 ELSE 0)
      mean  == Reduced(sum, count)
  IN  IF count > 0
        THEN Number(mean.num, mean.den,
                    weightedQuotient(
                      weightedSums(carriedValues(a, 60, b, 40), 1,
                                   [sum |-> DoubleZero, count |-> DoubleZero])))
        ELSE NumberOf(default)

fusedSources(aemetData, nasaData, copernicusData) ==
     (IF aemetData.status = "success" THEN <<"AEMET">> ELSE <<>>)
  \o (IF nasaData.status = "success" THEN <<"NASA">> ELSE <<>>)
  \o (IF copernicusData.status = "success"
        THEN <<"Copernicus ERA5">> ELSE <<>>)

anomalyPenalty(level) ==
  CASE level = "normal"   -> 0
    [] level = "moderate" -> -5
    [] level = "high"     -> -10
    [] level = "extreme"  -> -15

fusionConfidence_NoFloor(sourceCount, copernicusData) ==
  LET baseConfidence ==
        IF sourceCount >= 2 THEN 95 ELSE IF sourceCount = 1 THEN 75 ELSE 50
  IN  IF copernicusData.status = "success"
        THEN Min(baseConfidence,
                 copernicusData.validation.confidence
                   + anomalyPenalty(copernicusData.validation.anomalyLevel))
        ELSE baseConfidence - 10

\* The confidence of the fused reading; sourceCount is the number of
\* successful source adapters (fusedData.sources.length at that point).
fusionConfidence(sourceCount, copernicusData) ==
  LET baseConfidence ==
        IF sourceCount >= 2 THEN 95 ELSE IF sourceCount = 1 THEN 75 ELSE 50
  IN  IF copernicusData.status = "success"
        THEN Max(30, Min(baseConfidence,
                         copernicusData.validation.confidence
                           + anomalyPenalty(copernicusData.validation.anomalyLevel)))
        ELSE Max(30, baseConfidence - 10)

successCount(aemetData, nasaData) ==
    (IF aemetData.status = "success" THEN 1 ELSE 0)
  + (IF nasaData.status = "success" THEN 1 ELSE 0)

\* The default of each fused field.
fieldDefault(field) ==
  CASE field = "temperature"   -> 1800
    [] field = "humidity"      -> 6000
    [] field = "precipitation" -> 0
    [] field = "windSpeed"     -> 500
    [] field = "pressure"      -> 101300
    [] field = "windDirection" -> 18000

\* The six fused fields.
fusedFields(aemetData, nasaData) ==
  [field \in {"temperature", "humidity", "precipitation", "windSpeed",
              "pressure", "windDirection"} |->
     fuseField(aemetData, nasaData, field, fieldDefault(field))]

\* fusedData, given its six fused fields.
fusedDataOf(fields, aemetData, nasaData, copernicusData, time) ==
  LET fused == fields
  IN  [timestamp     |-> time,
       temperature   |-> fused.temperature,
       humidity      |-> fused.humidity,
       precipitation |-> fused.precipitation,
       windSpeed     |-> fused.windSpeed,
       windDirection |-> fused.windDirection,
       pressure      |-> fused.pressure,
       sources       |-> fusedSources(aemetData, nasaData, copernicusData),
       confidence    |-> fusionConfidence(successCount(aemetData, nasaData),
                                          copernicusData),
       dataQuality   |-> "high"]

\* fuseWeatherData(...).fusedData; time stands for new Date().
fuseWeatherData(aemetData, nasaData, copernicusData, time) ==
  fusedDataOf(fusedFields(aemetData, nasaData), aemetData, nasaData,
              copernicusData, time)

\* a || b || c on optional numbers: undefined and 0 are falsy.
Truthy(opt) == opt # None /\ opt[1] # 0

OrElse(a, b, c) == IF Truthy(a) THEN a[1] ELSE IF Truthy(b) THEN b[1] ELSE c

\* The currentWeather that GET hands to the baseline validation.
currentWeatherOf(aemetData, nasaData) ==
  [temperature   |-> OrElse(aemetData.temperature, nasaData.temperature, 1800),
   humidity      |-> OrElse(aemetData.humidity, nasaData.humidity, 6000),
   precipitation |-> OrElse(aemetData.precipitation, nasaData.precipitation, 0),
   windSpeed     |-> OrElse(aemetData.windSpeed, nasaData.windSpeed, 500),
   pressure      |-> OrElse(aemetData.pressure, nasaData.pressure, 101300)]

\* The response body of GET on its try path, from fusedData and
\* copernicusData.
responseBody(fusedData, aemetData, nasaData, copernicusData, time) ==
  [timestamp     |-> fusedData.timestamp,
   temperature   |-> fusedData.temperature,
   humidity      |-> fusedData.humidity,
   precipitation |-> fusedData.precipitation,
   windSpeed     |-> fusedData.windSpeed,
   windDirection |-> fusedData.windDirection,
   pressure      |-> fusedData.pressure,
   sources       |-> fusedData.sources,
   confidence    |-> fusedData.confidence,
   dataQuality   |-> fusedData.dataQuality,
   metadata      |->
     [fusionStrategy    |-> "weighted_average_with_era5_validation",
      sourcesUsed       |-> fusedData.sources,
      confidence        |-> fusedData.confidence,
      era5Validation    |-> copernicusData.validation,
      anomalyLevel      |-> copernicusData.validation.anomalyLevel,
      historicalContext |-> copernicusData.historicalAvg,
      rawSources        |->
        [aemet |-> aemetData, nasa |-> nasaData, copernicus |-> copernicusData],
      processingTime    |-> time]]

\* GET as a function of what the three fetches returned.  No callee throws
\* (each adapter catches its own failures), so the try path is the only one
\* taken.
fusedResponse(aemetData, nasaData, context, time) ==
  LET copernicusData == context
  IN  responseBody(fuseWeatherData(aemetData, nasaData, copernicusData, time),
                   aemetData, nasaData, copernicusData, time)

GET(aemetData, nasaData, era5Data, time) ==
  fusedResponse(aemetData, nasaData,
                fetchCopernicusHistoricalContext(
                  currentWeatherOf(aemetData, nasaData), era5Data),
                time)

-----------------------------------------------------------------------------
(* useWeatherData hook: lib/useWeatherData.ts                              *)

UPDATE_INTERVAL == 1200000

MIN_MANUAL_UPDATE_INTERVAL == 300000

\* data/mockData.ts: platforms.
initialPlatforms ==
  << [id |-> "P1", isRoofed |-> TRUE,  riskScore |-> 25, exposure |-> 20],
     [id |-> "P2", isRoofed |-> FALSE, riskScore |-> 45, exposure |-> 60],
     [id |-> "P3", isRoofed |-> TRUE,  riskScore |-> 35, exposure |-> 30],
     [id |-> "P4", isRoofed |-> FALSE, riskScore |-> 70, exposure |-> 90],
     [id |-> "P5", isRoofed |-> TRUE,  riskScore |-> 20, exposure |-> 10],
     [id |-> "P6", isRoofed |-> FALSE, riskScore |-> 55, exposure |-> 70],
     [id |-> "P7", isRoofed |-> TRUE,  riskScore |-> 30, exposure |-> 20],
     [id |-> "P8", isRoofed |-> FALSE, riskScore |-> 65, exposure |-> 80] >>

updatePlatformScores_IgnoresLevel(weather, level) ==
  [i \in 1..Len(initialPlatforms) |->
     [initialPlatforms[i] EXCEPT
        !.riskScore = calculateRiskScore(weather, initialPlatforms[i], 100)]]

\* updatePlatformScores: the platforms that setPlatforms receives.  level is
\* None when the era5AnomalyLevel argument is missing.
updatePlatformScores(weather, level) ==
  LET era5Factor ==
        IF level # None /\ level[1] # ""
          THEN era5AnomalyToRiskFactor(level[1]) ELSE 100
  IN  [i \in 1..Len(initialPlatforms) |->
         [initialPlatforms[i] EXCEPT
            !.riskScore = calculateRiskScore(weather, initialPlatforms[i],
                                             era5Factor)]]

\* platforms.reduce((sum, p) => sum + p.riskScore, 0) / platforms.length
averageRiskScore(ps) ==
  Rat(SumSeq([i \in 1..Len(ps) |-> ps[i].riskScore]), Len(ps))

\* The era5Context of updateHistoricalAnalysis: the historical averages of
\* the metadata and the reading's distance from each, when the metadata
\* carries a historicalContext.
era5ContextOf(weather, meta) ==
  IF meta = None THEN None
  ELSE IF "historicalContext" \notin DOMAIN meta[1] THEN None
  ELSE
    LET h == meta[1].historicalContext
        diff(f) == Reduced(weather[f].num * h[f].den - h[f].num * weather[f].den,
                           weather[f].den * h[f].den)
    IN  Some([historicalAvg |-> h,
              anomaly |->
                [temperature |-> diff("temperature"),
                 humidity |-> diff("humidity"),
                 precipitation |-> diff("precipitation"),
                 windSpeed |-> diff("windSpeed"),
                 pressure |-> diff("pressure")]])

\* What updateHistoricalAnalysis(weather, averageRiskScore, metadata) hands
\* to generateHistoricalRecommendations, analyzeTrends and
\* getCombinedConfidence; the analysis it stores is a function of these.
analysisOf(weather, average, meta) ==
  Some([precipitation |-> weather.precipitation,
        windSpeed |-> weather.windSpeed,
        temperature |-> weather.temperature,
        pressure |-> weather.pressure,
        averageRiskScore |-> average,
        era5Validation |->
          IF meta = None THEN None ELSE Some(meta[1].era5Validation),
        era5Context |-> era5ContextOf(weather, meta)])

\* sources.join(' + ')
RECURSIVE JoinSources(_)
JoinSources(sources) ==
  IF sources = <<>> THEN ""
  ELSE IF Len(sources) = 1 THEN sources[1]
  ELSE sources[1] \o " + " \o JoinSources(Tail(sources))

\* x?.join(' + ') || 'Live APIs'
dataSourceOf(sources) ==
  IF JoinSources(sources) = "" THEN "Live APIs" ELSE JoinSources(sources)

\* n || 50
confidenceOf(n) == IF n = 0 THEN 50 ELSE n

\* canMakeManualUpdate, as the render that captured lastManual sees it.
canMakeManualUpdate(lastManual) ==
  IF lastManual = None THEN TRUE
  ELSE now - lastManual[1] >= MIN_MANUAL_UPDATE_INTERVAL

\* The state that the callbacks of a render close over, as far as
\* updateWeatherData reads it.
closureOf(simulating, lastManual, original, weather, ps) ==
  [isSimulating |-> simulating, lastManualUpdate |-> lastManual,
   noOriginal |-> original = None, noWeather |-> weather = None,
   platforms |-> ps]

\* The callbacks of the latest render.
currentClosure ==
  closureOf(isSimulating, lastManualUpdate, originalWeatherData, weatherData,
            platforms)

\* The callbacks of the first render, which the mount effect and its
\* interval timer keep calling (the effect has no dependencies).
mountClosure == closureOf(FALSE, None, None, None, initialPlatforms)

\* The enhancedWeatherData that updateWeatherData builds from the body.
enhancedWeatherDataOf(data) ==
  [timestamp |-> data.timestamp, temperature |-> data.temperature,
   humidity |-> data.humidity, precipitation |-> data.precipitation,
   windSpeed |-> data.windSpeed, windDirection |-> data.windDirection,
   pressure |-> data.pressure, sources |-> data.sources,
   confidence |-> data.confidence, dataQuality |-> data.dataQuality]

\* The state of the first render: the useState initial values, before the
\* mount effect has run.
HookInit ==
  /\ weatherData = None
  /\ platforms = initialPlatforms
  /\ loading = FALSE
  /\ lastUpdate = None
  /\ lastManualUpdate = None
  /\ dataSource = ""
  /\ confidence = 0
  /\ isSimulating = FALSE
  /\ originalWeatherData = None
  /\ historicalAnalysis = None
  /\ metadata = None
  /\ anomalyLevel = "normal"
  /\ now = 0
  /\ nextTick = None
  /\ inflight = <<>>
  /\ shownBeforeSim = None
  /\ scoredBeforeSim = None
  /\ lastManualFetch = None
  /\ lastCall = ""

-----------------------------------------------------------------------------
(* SpecServer: one run of GET                                              *)

MaxDays == 3

sourceError(name, message) ==
  [source |-> name, status |-> "error", error |-> message,
   temperature |-> None, humidity |-> None, precipitation |-> None,
   windSpeed |-> None, windDirection |-> None, pressure |-> None]

sourceSuccess(name, t, h, p, w, d, b) ==
  [source |-> name, status |-> "success", error |-> "",
   temperature |-> t, humidity |-> h, precipitation |-> p,
   windSpeed |-> w, windDirection |-> d, pressure |-> b]

\* Results fetchAEMETData can return: the error result, and successes whose
\* fields are undefined where the station's value parsed to 0 or NaN
\* (precipitation falls back to 0 instead).  The last but one is the reading
\* of DryDay with a drizzle of 0.2 mm/h: against a history of DryDay and
\* StillDay its temperature, wind speed and pressure are one standard
\* deviation from the mean in exact arithmetic and its precipitation three.
\* The last one fuses with the last of NasaResults into a temperature of 0,
\* a wind speed of 8 and a pressure of 1000 in exact arithmetic, and into
\* -2.7755575615628914e-17, 8.000000000000002 and 999.9999999999999 in the
\* doubles of the source.
AemetResults ==
  { sourceError("AEMET", "No AEMET data available"),
    sourceSuccess("AEMET", Some(1800), Some(6500), Some(100), Some(500),
                  Some(22500), Some(101300)),
    sourceSuccess("AEMET", Some(2000), Some(6500), Some(300), Some(800),
                  Some(22500), Some(101300)),
    sourceSuccess("AEMET", Some(2100), Some(9000), Some(600), Some(1500),
                  Some(22500), Some(99500)),
    sourceSuccess("AEMET", Some(2500), Some(6500), Some(100), Some(500),
                  Some(22500), Some(101300)),
    sourceSuccess("AEMET", None, Some(6500), Some(0), None, None,
                  Some(101300)),
    sourceSuccess("AEMET", Some(1800), None, Some(0), Some(500), Some(22500),
                  None),
    sourceSuccess("AEMET", Some(1600), Some(6000), Some(20), Some(400),
                  Some(22500), Some(101000)),
    sourceSuccess("AEMET", Some(30), Some(6500), Some(0), Some(10),
                  Some(22500), Some(98080)) }

\* Results fetchNASAData can return: every field present, wind direction 180.
NasaResults ==
  { sourceError("NASA", "NASA data not available for any tested date range"),
    sourceSuccess("NASA", Some(2000), Some(7000), Some(0), Some(500),
                  Some(18000), Some(101300)),
    sourceSuccess("NASA", Some(2400), Some(6000), Some(200), Some(1000),
                  Some(18000), Some(100800)),
    sourceSuccess("NASA", Some(-45), Some(6500), Some(0), Some(1985),
                  Some(18000), Some(102880)) }

\* The 24 hourly entries of a day with steady temperature t, humidity h,
\* wind speed w and pressure b, and rain p in each of its first two hours.
steadyHours(date, t, h, p, w, b) ==
  [i \in 1..24 |->
     [date |-> date, temperature |-> Some(t), humidity |-> Some(h),
      precipitation |-> Some(IF i <= 2 THEN p ELSE 0), windSpeed |-> Some(w),
      pressure |-> Some(b)]]

\* Daily records as fetchERA5HistoricalData makes them: a dry day, a wet
\* day, and a day whose hourly values (wind 0.1 m/s) are no doubles, so that
\* its records hold doubles beside the exact means (wind
\* 0.10000000000000005).
DryDay == era5Day(steadyHours(1, 1600, 6000, 0, 400, 101000), 1)

WetDay == era5Day(steadyHours(2, 2000, 7000, 100, 600, 101600), 2)

StillDay == era5Day(steadyHours(3, 1810, 6430, 5, 10, 101310), 3)

Era5Days == {DryDay, WetDay, StillDay}

\* What fetchERA5HistoricalData can return: the empty series on failure, or
\* up to MaxDays daily records.
Era5Series == UNION { [1..n -> Era5Days] : n \in 0..MaxDays }

ServerIdle ==
  /\ srvPc = "sources"
  /\ srvAemet = None
  /\ srvNasa = None
  /\ srvEra5 = None
  /\ srvCopernicus = None
  /\ srvResponse = None

\* const [aemetData, nasaData] = await Promise.all([...])
GetSources ==
  /\ srvPc = "sources"
  /\ \E a \in AemetResults, n \in NasaResults :
       /\ srvAemet' = Some(a)
       /\ srvNasa' = Some(n)
  /\ srvPc' = "validate"
  /\ UNCHANGED <<srvEra5, srvCopernicus, srvResponse>>
  /\ UNCHANGED scoreVars
  /\ UNCHANGED hookVars
  /\ UNCHANGED libVars

\* const copernicusData = await fetchCopernicusHistoricalContext(currentWeather)
GetValidate ==
  /\ srvPc = "validate"
  /\ \E e \in Era5Series :
       /\ srvEra5' = Some(e)
       /\ srvCopernicus' =
            Some(fetchCopernicusHistoricalContext(
                   currentWeatherOf(srvAemet[1], srvNasa[1]), e))
  /\ srvPc' = "fuse"
  /\ UNCHANGED <<srvAemet, srvNasa, srvResponse>>
  /\ UNCHANGED scoreVars
  /\ UNCHANGED hookVars
  /\ UNCHANGED libVars

\* fuseWeatherData(...) and return NextResponse.json(response)
GetFuse ==
  /\ srvPc = "fuse"
  /\ srvResponse' =
       Some(responseBody(
              fuseWeatherData(srvAemet[1], srvNasa[1], srvCopernicus[1], 0),
              srvAemet[1], srvNasa[1], srvCopernicus[1], 0))
  /\ srvPc' = "done"
  /\ UNCHANGED <<srvAemet, srvNasa, srvEra5, srvCopernicus>>
  /\ UNCHANGED scoreVars
  /\ UNCHANGED hookVars
  /\ UNCHANGED libVars

\* Math.random() returns a double in [0, 1): the draws are the first
\* quarters (0, 0.25, ... up to MaxQuarters of them) and the largest double
\* below 1 (1 - 2^-53).
MaxQuarters == 2

DoubleBelowOne ==
  [neg |-> FALSE, man |-> NatSub(NatShiftLeft(<<1>>, 53), <<1>>), exp |-> -53]

RandomResults ==
  { DoubleOf(k, 4) : k \in 0..Min(MaxQuarters, 3) } \cup {DoubleBelowOne}

\* a + Math.random() * b for the draw r, a and b in hundredths: the double
\* that the source computes.
randomIn(a, b, r) == DoubleAdd(DoubleOf(a, 100), DoubleMul(r, DoubleOf(b, 100)))

\* Math.random() * b
randomBelow(b, r) == DoubleMul(r, DoubleOf(b, 100))

\* The fallbackData of GET's catch block; random holds the six draws of
\* Math.random(), in the order of the fields.  Its readings are the doubles
\* themselves.
emergencyFallback(random, time) ==
  [timestamp     |-> time,
   temperature   |-> randomIn(1800, 800, random.temperature),
   humidity      |-> randomIn(5000, 3000, random.humidity),
   precipitation |-> randomBelow(300, random.precipitation),
   windSpeed     |-> randomIn(300, 1200, random.windSpeed),
   windDirection |-> randomBelow(36000, random.windDirection),
   pressure      |-> randomIn(101000, 1000, random.pressure),
   sources       |-> <<"Emergency Fallback">>,
   confidence    |-> 20,
   dataQuality   |-> "estimated",
   metadata      |->
     [fusionStrategy |-> "emergency_fallback",
      sourcesUsed    |-> <<"Emergency Fallback">>,
      confidence     |-> 20,
      era5Validation |->
        [anomalyLevel |-> "normal", confidence |-> 20, similarDaysFound |-> 0,
         dataSource |-> "None - Emergency fallback"],
      error          |-> "All data sources failed",
      processingTime |-> time]]

\* The six draws of Math.random() that one run of the catch block makes.
RandomDraws ==
  [temperature : RandomResults, humidity : RandomResults,
   precipitation : RandomResults, windSpeed : RandomResults,
   windDirection : RandomResults, pressure : RandomResults]

\* The bodies the catch block can build at time 0, one for each six draws.
EmergencyBodies == { emergencyFallback(random, 0) : random \in RandomDraws }

\* GET's catch block.  No adapter, baseline or fusion failure reaches it
\* (each is turned into a result inside the try block), so it runs only
\* when the try block itself throws, at any of its steps.  The constants
\* of the try block (aemetData, nasaData, era5Data, copernicusData) are out
\* of scope in it.
GetCatch ==
  /\ srvPc \in {"sources", "validate", "fuse"}
  /\ \E fallbackData \in EmergencyBodies :
       srvResponse' = Some(fallbackData)
  /\ srvPc' = "fallback"
  /\ srvAemet' = None
  /\ srvNasa' = None
  /\ srvEra5' = None
  /\ srvCopernicus' = None
  /\ UNCHANGED scoreVars
  /\ UNCHANGED hookVars
  /\ UNCHANGED libVars

ScoreIdle ==
  /\ scWeather = None
  /\ scPlatform = None
  /\ scLevel = "normal"
  /\ scScore = None

InitServer == ServerIdle /\ ScoreIdle /\ HookInit /\ LibIdle

NextServer == GetSources \/ GetValidate \/ GetFuse \/ GetCatch

SpecServer == InitServer /\ [][NextServer]_vars

-----------------------------------------------------------------------------
(* SpecScore: calculateRiskScore on a grid of inputs                       *)

NoScore == <<>>

PrecipitationGrid == {0, 50, 51, 275, 500, 501, 1000, 2230}
WindSpeedGrid     == {0, 800, 801, 1100, 1400, 1401, 2470}
TemperatureGrid   == {-500, 0, 1840, 3500, 3600}
HumidityGrid      == {8500, 8600}
PressureGrid      == {99800, 100000}
ExposureGrid      == {0, 20, 60, 90}

ScoreWeathers ==
  [timestamp : {0}, temperature : TemperatureGrid, humidity : HumidityGrid,
   precipitation : PrecipitationGrid, windSpeed : WindSpeedGrid,
   windDirection : {18000}, pressure : PressureGrid]

\* A reading whose adjusted score for a roofed platform and factor 1.0 is
\* 19.2 + 18.4 + 5.9 + 4.0 = 47.5 in exact arithmetic, and a little less in
\* the doubles of the source.
TieWeathers ==
  { [timestamp |-> 0, temperature |-> 3880, humidity |-> 8448,
     precipitation |-> 640, windSpeed |-> 1520, windDirection |-> 18000,
     pressure |-> 99684] }

ScorePlatforms == [isRoofed : BOOLEAN, exposure : ExposureGrid]

\* NumberOf on the values of the grids, evaluated once.
GridNumbers ==
  [v \in UNION {TemperatureGrid, HumidityGrid, PrecipitationGrid,
                WindSpeedGrid, PressureGrid, {18000},
                {3880, 8448, 640, 1520, 99684}} |-> NumberOf(v)]

\* The WeatherData whose six numbers are those a reading gives in whole
\* hundredths.
readingOf(grid) ==
  [key \in DOMAIN grid |->
     IF key = "timestamp" THEN grid[key]
     ELSE IF grid[key] \in DOMAIN GridNumbers THEN GridNumbers[grid[key]]
     ELSE NumberOf(grid[key])]

\* The weather argument of the call.
scReading == readingOf(scWeather)

ScoreStart ==
  /\ scWeather \in ScoreWeathers \cup TieWeathers
  /\ scPlatform \in ScorePlatforms
  /\ scLevel \in AnomalyLevels
  /\ scScore = NoScore

InitScore == ScoreStart /\ ServerIdle /\ HookInit /\ LibIdle

\* One call calculateRiskScore(weather, platform, era5Factor), the factor
\* looked up as updatePlatformScores does.
ApplyScore ==
  /\ scScore = NoScore
  /\ scScore' = <<calculateRiskScore(scReading, scPlatform,
                                     era5AnomalyToRiskFactor(scLevel))>>
  /\ UNCHANGED <<scWeather, scPlatform, scLevel>>
  /\ UNCHANGED serverVars
  /\ UNCHANGED hookVars
  /\ UNCHANGED libVars

NextScore == ApplyScore

SpecScore == InitScore /\ [][NextScore]_vars

-----------------------------------------------------------------------------
(* Spec: the useWeatherData hook over time                                 *)

\* The clock advances in steps of half the manual cool-down for the first
\* MaxClock steps after mount, and from there straight to the moment the
\* interval timer is due, for the first MaxTicks firings of the timer.
TimeUnit == MIN_MANUAL_UPDATE_INTERVAL \div 2

MaxClock == 2

MaxTicks == 1

\* At most MaxInflight fetches await their response at once.
MaxInflight == 2

\* What the three fetches of a run of GET returned, for the responses the
\* hook receives: both sources with a two-day baseline, and nothing at all.
\* The two sources fuse into a temperature of 18.404 C, which is not a whole
\* number of hundredths, and into a wind speed of 8 m/s in exact arithmetic
\* and of 8.000000000000002 in the doubles of the source.
ServerRunsOf(dryDay, wetDay) ==
  { << sourceSuccess("AEMET", Some(1840), Some(6500), Some(0), Some(10),
                     Some(22500), Some(101300)),
       sourceSuccess("NASA", Some(1841), Some(6500), Some(0), Some(1985),
                     Some(18000), Some(101300)),
       << dryDay, wetDay >> >>,
     << sourceError("AEMET", "No AEMET data available"),
        sourceError("NASA", "NASA data not available for any tested date range"),
        << >> >> }

ServerRuns == ServerRunsOf(DryDay, WetDay)

\* The bodies of these runs of GET, at time 0, as await response.json()
\* hands them to the hook: every number of a body is the number GET put
\* there.
ServerBodies == { GET(r[1], r[2], r[3], 0) : r \in ServerRuns }

\* The same body from a run at time t: GET(.., t) differs from GET(.., 0) in
\* its two time stamps only.
bodyAt(body, t) ==
  [body EXCEPT !.timestamp = t, !.metadata.processingTime = t]

\* What await fetch('/api/weather') can produce at time t: a thrown fetch
\* or a non-OK response, or the body of a run of GET.
FetchOutcomes(t) ==
  { [ok |-> FALSE, data |-> None] }
    \cup { [ok |-> TRUE, data |-> Some(bodyAt(b, t))] : b \in ServerBodies }

\* DANASimulator.tsx: the name and the data of the three scenarios, less the
\* timestamp of the data.
scenarioReadings ==
  { [name |-> "DANA Severa", temperature |-> NumberOf(1840),
     humidity |-> NumberOf(9200), precipitation |-> NumberOf(2230),
     windSpeed |-> NumberOf(2470), windDirection |-> NumberOf(23500),
     pressure |-> NumberOf(99800)],
    [name |-> "Tormenta Invernal Severa", temperature |-> NumberOf(370),
     humidity |-> NumberOf(9500), precipitation |-> NumberOf(3280),
     windSpeed |-> NumberOf(3120), windDirection |-> NumberOf(21000),
     pressure |-> NumberOf(99200)],
    [name |-> "Ola de Calor Extrema", temperature |-> NumberOf(4120),
     humidity |-> NumberOf(3200), precipitation |-> NumberOf(0),
     windSpeed |-> NumberOf(1430), windDirection |-> NumberOf(18000),
     pressure |-> NumberOf(102500)] }

\* The data of a scenario as a render at time t builds it, with
\* `timestamp: new Date()`.
scenarioDataOf(reading, t) ==
  [timestamp |-> t, temperature |-> reading.temperature,
   humidity |-> reading.humidity, precipitation |-> reading.precipitation,
   windSpeed |-> reading.windSpeed, windDirection |-> reading.windDirection,
   pressure |-> reading.pressure]

\* The data of the three scenarios, built at time t.
ScenarioData(t) == { scenarioDataOf(r, t) : r \in scenarioReadings }

\* The fields of a reading that calculateRiskScore reads.
scoredFields(weather) ==
  [key \in {"temperature", "humidity", "precipitation", "windSpeed",
            "pressure"} |->
     weather[key]]

\* The era5AnomalyLevel argument of updatePlatformScores: missing, empty, or
\* a level.
ScoreLevels == { None, Some("") } \cup { Some(l) : l \in AnomalyLevels }

\* updatePlatformScores on every reading the hook can hold (a body of
\* ServerBodies or a scenario reading, its other fields and the time of the
\* call leaving the scores as they are) and every level, evaluated once.
PlatformScores ==
  { [weather |-> reading, level |-> level,
     platforms |-> updatePlatformScores(reading, level)] :
      reading \in { scoredFields(r) : r \in ServerBodies \cup ScenarioData(0) },
      level \in ScoreLevels }

\* updatePlatformScores(weather, level), read from the table where the
\* table has the reading and computed where it has not.
scoresFrom(table, weather, level) ==
  LET reading == scoredFields(weather)
      scores == { scored \in table :
                    /\ scored.level = level
                    /\ scored.weather = reading }
  IN  IF scores = {}
        THEN updatePlatformScores(weather, level)
        ELSE (CHOOSE scored \in scores : TRUE).platforms

updatedPlatformScores(weather, level) ==
  scoresFrom(PlatformScores, weather, level)

\* The sequence q without its i-th element.
RemoveAt(q, i) == [j \in 1..(Len(q) - 1) |-> IF j < i THEN q[j] ELSE q[j + 1]]

\* The reading, confidence and source label on display.
Displayed ==
  [weatherData |-> weatherData, confidence |-> confidence,
   dataSource |-> dataSource]

\* The platform risk scores and the anomaly level being reported.
ScoredNow == [platforms |-> platforms, anomalyLevel |-> anomalyLevel]

updateWeatherDataCall_IgnoresSimulation(isManual, closure) ==
  IF isManual /\ ~canMakeManualUpdate(closure.lastManualUpdate)
    THEN UNCHANGED <<loading, inflight, lastManualFetch>>
    ELSE /\ Len(inflight) < MaxInflight
         /\ loading' = TRUE
         /\ inflight' = Append(inflight,
                               [isManual |-> isManual, closure |-> closure])
         /\ lastManualFetch' =
              IF isManual THEN Some(now) ELSE lastManualFetch

\* updateWeatherData(isManual) up to its await, run by the callbacks of the
\* render described by closure: it returns early in simulation mode and
\* inside the manual cool-down, and otherwise sets loading and issues the
\* fetch.
updateWeatherDataCall(isManual, closure) ==
  IF closure.isSimulating
       \/ (isManual /\ ~canMakeManualUpdate(closure.lastManualUpdate))
    THEN UNCHANGED <<loading, inflight, lastManualFetch>>
    ELSE /\ Len(inflight) < MaxInflight
         /\ loading' = TRUE
         /\ inflight' = Append(inflight,
                               [isManual |-> isManual, closure |-> closure])
         /\ lastManualFetch' =
              IF isManual THEN Some(now) ELSE lastManualFetch

\* The mount effect: the first updateWeatherData(false) and setInterval.
Mount ==
  /\ nextTick = None
  /\ updateWeatherDataCall(FALSE, mountClosure)
  /\ nextTick' = Some(now + UPDATE_INTERVAL)
  /\ shownBeforeSim' = None
  /\ scoredBeforeSim' = None
  /\ lastCall' = "mount"
  /\ UNCHANGED <<weatherData, platforms, lastUpdate, lastManualUpdate,
                 dataSource, confidence, isSimulating, originalWeatherData,
                 historicalAnalysis, metadata, anomalyLevel>>
  /\ UNCHANGED now
  /\ UNCHANGED <<scoreVars, serverVars, libVars>>

\* The interval timer fires: updateWeatherData(false) of the first render.
PeriodicTick ==
  /\ nextTick # None
  /\ now >= nextTick[1]
  /\ updateWeatherDataCall(FALSE, mountClosure)
  /\ nextTick' = Some(nextTick[1] + UPDATE_INTERVAL)
  /\ shownBeforeSim' = None
  /\ scoredBeforeSim' = None
  /\ lastCall' = "periodicTick"
  /\ UNCHANGED <<weatherData, platforms, lastUpdate, lastManualUpdate,
                 dataSource, confidence, isSimulating, originalWeatherData,
                 historicalAnalysis, metadata, anomalyLevel>>
  /\ UNCHANGED now
  /\ UNCHANGED <<scoreVars, serverVars, libVars>>

\* refreshData(): updateWeatherData(true) of the latest render.
RefreshData ==
  /\ nextTick # None
  /\ updateWeatherDataCall(TRUE, currentClosure)
  /\ shownBeforeSim' = None
  /\ scoredBeforeSim' = None
  /\ lastCall' = "refreshData"
  /\ UNCHANGED <<weatherData, platforms, lastUpdate, lastManualUpdate,
                 dataSource, confidence, isSimulating, originalWeatherData,
                 historicalAnalysis, metadata, anomalyLevel>>
  /\ UNCHANGED <<now, nextTick>>
  /\ UNCHANGED <<scoreVars, serverVars, libVars>>

\* updateWeatherData after its await, on an OK response with body data.
ResponseOk(call, data) ==
  LET enhancedWeatherData == enhancedWeatherDataOf(data)
      weatherMetadata == data.metadata
  IN  /\ weatherData' = Some(enhancedWeatherData)
      /\ metadata' = Some(weatherMetadata)
      /\ confidence' = confidenceOf(data.confidence)
      /\ dataSource' = dataSourceOf(data.sources)
      /\ anomalyLevel' =
           IF weatherMetadata.anomalyLevel = "" THEN "normal"
           ELSE weatherMetadata.anomalyLevel
      /\ platforms' = updatedPlatformScores(enhancedWeatherData,
                                            Some(weatherMetadata.anomalyLevel))
      /\ historicalAnalysis' =
           analysisOf(enhancedWeatherData,
                      averageRiskScore(call.closure.platforms),
                      Some(weatherMetadata))
      /\ lastUpdate' = Some(now)
      /\ lastManualUpdate' =
           IF call.isManual THEN Some(now) ELSE lastManualUpdate
      /\ originalWeatherData' =
           IF call.closure.noOriginal THEN Some(enhancedWeatherData)
           ELSE originalWeatherData

\* updateWeatherData after its await, in its catch block.
ResponseFailed(call) ==
  /\ IF call.closure.noWeather
       THEN dataSource' = "Local fallback" /\ confidence' = 30
       ELSE UNCHANGED <<dataSource, confidence>>
  /\ UNCHANGED <<weatherData, metadata, anomalyLevel, platforms,
                 historicalAnalysis, lastUpdate, lastManualUpdate,
                 originalWeatherData>>

\* A fetch settles and the rest of its updateWeatherData runs, with the
\* values its render closed over.
FetchResolve ==
  /\ \E i \in 1..Len(inflight) :
       /\ \E outcome \in FetchOutcomes(now) :
            IF outcome.ok
              THEN ResponseOk(inflight[i], outcome.data[1])
              ELSE ResponseFailed(inflight[i])
       /\ inflight' = RemoveAt(inflight, i)
  /\ loading' = FALSE
  /\ shownBeforeSim' = None
  /\ scoredBeforeSim' = None
  /\ lastCall' = "fetchResolve"
  /\ UNCHANGED isSimulating
  /\ UNCHANGED <<now, nextTick, lastManualFetch>>
  /\ UNCHANGED <<scoreVars, serverVars, libVars>>

\* simulateWeather(simulatedData), of a render whose platforms are ps, called
\* at the given time.
simulateWeatherCall(simulatedData, ps, time) ==
  LET enhancedSimulatedData ==
        [timestamp |-> simulatedData.timestamp,
         temperature |-> simulatedData.temperature,
         humidity |-> simulatedData.humidity,
         precipitation |-> simulatedData.precipitation,
         windSpeed |-> simulatedData.windSpeed,
         windDirection |-> simulatedData.windDirection,
         pressure |-> simulatedData.pressure,
         sources |-> <<"DANA Simulation">>,
         confidence |-> 95,
         dataQuality |-> "simulated"]
  IN  /\ weatherData' = Some(enhancedSimulatedData)
      /\ platforms' = updatedPlatformScores(simulatedData, Some("extreme"))
      /\ historicalAnalysis' =
           analysisOf(simulatedData, averageRiskScore(ps), None)
      /\ isSimulating' = TRUE
      /\ dataSource' = "DANA Simulation"
      /\ confidence' = 95
      /\ anomalyLevel' = "extreme"
      /\ lastUpdate' = Some(time)
      /\ shownBeforeSim' =
           IF ~isSimulating /\ weatherData # None
             THEN Some(Displayed) ELSE None
      /\ scoredBeforeSim' =
           IF ~isSimulating /\ weatherData # None
             THEN Some(ScoredNow) ELSE None
      /\ lastCall' = "simulateWeather"
      /\ UNCHANGED <<loading, lastManualUpdate, originalWeatherData, metadata>>
      /\ UNCHANGED <<nextTick, inflight, lastManualFetch>>

\* simulateWeather(simulatedData)
SimulateWeather ==
  /\ nextTick # None
  /\ \E simulatedData \in ScenarioData(now) :
       simulateWeatherCall(simulatedData, platforms, now)
  /\ UNCHANGED now
  /\ UNCHANGED <<scoreVars, serverVars, libVars>>

\* resetSimulation(), of the latest render.
resetSimulationCall ==
  /\ isSimulating' = FALSE
  /\ anomalyLevel' = "normal"
  /\ IF originalWeatherData # None
       THEN /\ weatherData' = originalWeatherData
            /\ dataSource' = dataSourceOf(originalWeatherData[1].sources)
            /\ confidence' = confidenceOf(originalWeatherData[1].confidence)
            /\ platforms' = updatedPlatformScores(originalWeatherData[1], None)
            /\ historicalAnalysis' =
                 analysisOf(originalWeatherData[1],
                            averageRiskScore(platforms), metadata)
            /\ lastUpdate' = Some(now)
            /\ UNCHANGED <<loading, inflight, lastManualFetch>>
       ELSE /\ updateWeatherDataCall(FALSE, currentClosure)
            /\ UNCHANGED <<weatherData, dataSource, confidence, platforms,
                           historicalAnalysis, lastUpdate>>
  /\ shownBeforeSim' = None
  /\ scoredBeforeSim' = None
  /\ lastCall' = "resetSimulation"
  /\ UNCHANGED <<lastManualUpdate, originalWeatherData, metadata>>
  /\ UNCHANGED nextTick

\* resetSimulation()
ResetSimulation ==
  /\ nextTick # None
  /\ resetSimulationCall
  /\ UNCHANGED now
  /\ UNCHANGED <<scoreVars, serverVars, libVars>>

\* Time passes, up to the moment the interval timer is due.
Advance ==
  /\ nextTick # None
  /\ now < nextTick[1]
  /\ \/ /\ now + TimeUnit <= MaxClock * TimeUnit
        /\ now + TimeUnit <= nextTick[1]
        /\ now' = now + TimeUnit
     \/ /\ nextTick[1] <= MaxTicks * UPDATE_INTERVAL
        /\ now' = nextTick[1]
  /\ UNCHANGED <<stateVars, nextTick, inflight, historyVars>>
  /\ UNCHANGED <<scoreVars, serverVars, libVars>>

Init == HookInit /\ ScoreIdle /\ ServerIdle /\ LibIdle

Next ==
  \/ Mount
  \/ PeriodicTick
  \/ RefreshData
  \/ FetchResolve
  \/ SimulateWeather
  \/ ResetSimulation
  \/ Advance

Spec == Init /\ [][Next]_vars

-----------------------------------------------------------------------------
(* Historical pattern matcher: lib/copernicusAPI.ts                        *)

\* historicalEvents, in catalog order; a date yyyy-mm-dd is the number
\* yyyymmdd, which orders as new Date(date).getTime() does.
historicalEvents ==
  << [name |-> "Storm Filomena", date |-> 20210109,
      maxPrecipitation |-> 4520, maxWindSpeed |-> 3850,
      minTemperature |-> -680, maxTemperature |-> 210, minPressure |-> 98530],
     [name |-> "DANA Valencia-Madrid", date |-> 20241029,
      maxPrecipitation |-> 7840, maxWindSpeed |-> 4210,
      minTemperature |-> 1230, maxTemperature |-> 1870, minPressure |-> 99210],
     [name |-> "Extreme Heat Wave", date |-> 20230714,
      maxPrecipitation |-> 0, maxWindSpeed |-> 1520,
      minTemperature |-> 2890, maxTemperature |-> 4430, minPressure |-> 101870],
     [name |-> "Madrid Hail Storm", date |-> 20220830,
      maxPrecipitation |-> 3210, maxWindSpeed |-> 6840,
      minTemperature |-> 1920, maxTemperature |-> 3180, minPressure |-> 99640],
     [name |-> "Storm Celia", date |-> 20231218,
      maxPrecipitation |-> 2870, maxWindSpeed |-> 5230,
      minTemperature |-> 410, maxTemperature |-> 1250, minPressure |-> 98890] >>

\* getTolerances, in exact arithmetic: precipitation and wind in hundredths,
\* temperature a fraction of them.
getTolerances(era5Context) ==
  IF era5Context = None
    THEN [precipitation |-> Rat(1500, 1), wind |-> Rat(2000, 1),
          temperature |-> Rat(800, 1)]
    ELSE LET tempAnomaly == Abs(era5Context[1].anomaly.temperature)
             precipAnomaly == Abs(era5Context[1].anomaly.precipitation)
             windAnomaly == Abs(era5Context[1].anomaly.windSpeed)
         IN  [precipitation |-> Rat(Max(1000, 1500 - precipAnomaly * 2), 1),
              wind |-> Rat(Max(1500, 2000 - windAnomaly * 2), 1),
              temperature |-> Reduced(Max(1000, 1600 - tempAnomaly), 2)]

\* getTolerances, as the doubles the source computes.
getTolerancesDouble(era5Context) ==
  IF era5Context = None
    THEN [precipitation |-> DoubleOf(15, 1), wind |-> DoubleOf(20, 1),
          temperature |-> DoubleOf(8, 1)]
    ELSE LET tempAnomaly == Abs(era5Context[1].anomaly.temperature)
             precipAnomaly == Abs(era5Context[1].anomaly.precipitation)
             windAnomaly == Abs(era5Context[1].anomaly.windSpeed)
         IN  [precipitation |->
                DoubleMax(DoubleOf(10, 1),
                          DoubleSub(DoubleOf(15, 1),
                                    DoubleMul(DoubleOf(precipAnomaly, 100),
                                              DoubleOf(2, 1)))),
              wind |->
                DoubleMax(DoubleOf(15, 1),
                          DoubleSub(DoubleOf(20, 1),
                                    DoubleMul(DoubleOf(windAnomaly, 100),
                                              DoubleOf(2, 1)))),
              temperature |->
                DoubleMax(DoubleOf(5, 1),
                          DoubleSub(DoubleOf(8, 1),
                                    DoubleMul(DoubleOf(tempAnomaly, 100),
                                              DoubleOf(5, 10))))]

\* Math.abs(peak - value) < tolerance, for a peak and a value in
\* hundredths.  The two sides are multiples of half a hundredth in exact
\* arithmetic and the doubles of the source are within 10^-12 of them:
\* exact arithmetic decides unless the sides are equal, where the doubles
\* themselves decide.
isCloserThan(peak, value, tolerance, toleranceDouble) ==
  LET gap == Abs(peak - value) * tolerance.den
  IN  IF gap = tolerance.num
        THEN DoubleLess(DoubleAbs(DoubleSub(DoubleOf(peak, 100),
                                            DoubleOf(value, 100))),
                        toleranceDouble)
        ELSE gap < tolerance.num

\* value >= lowest - tolerance, likewise.
isAtLeast(value, lowest, tolerance, toleranceDouble) ==
  LET bound == lowest * tolerance.den - tolerance.num
  IN  IF value * tolerance.den = bound
        THEN ~DoubleLess(DoubleOf(value, 100),
                         DoubleSub(DoubleOf(lowest, 100), toleranceDouble))
        ELSE value * tolerance.den > bound

\* value <= highest + tolerance, likewise.
isAtMost(value, highest, tolerance, toleranceDouble) ==
  LET bound == highest * tolerance.den + tolerance.num
  IN  IF value * tolerance.den = bound
        THEN ~DoubleLess(DoubleAdd(DoubleOf(highest, 100), toleranceDouble),
                         DoubleOf(value, 100))
        ELSE value * tolerance.den < bound

\* matches of the predicate of historicalEvents.filter, given the
\* tolerances in exact arithmetic and in doubles.
matchesOf(event, currentWeather, tolerances, tolerancesDouble) ==
  LET doubles == tolerancesDouble
      precipitationMatch ==
        isCloserThan(event.maxPrecipitation, currentWeather.precipitation,
                     tolerances.precipitation, doubles.precipitation)
      windMatch ==
        isCloserThan(event.maxWindSpeed, currentWeather.windSpeed,
                     tolerances.wind, doubles.wind)
      tempInRange ==
        /\ isAtLeast(currentWeather.temperature, event.minTemperature,
                     tolerances.temperature, doubles.temperature)
        /\ isAtMost(currentWeather.temperature, event.maxTemperature,
                    tolerances.temperature, doubles.temperature)
  IN  (IF precipitationMatch THEN 1 ELSE 0) + (IF windMatch THEN 1 ELSE 0)
        + (IF tempInRange THEN 1 ELSE 0)

\* The predicate of historicalEvents.filter: at least 2 of the 3 conditions.
\* era5Context is the argument that the tolerances were computed from.
isSimilarEvent(event, currentWeather, tolerances, era5Context) ==
  matchesOf(event, currentWeather, tolerances,
            getTolerancesDouble(era5Context)) >= 2

\* events.sort((a, b) => date(b) - date(a)): a stable sort, latest first.
RECURSIVE sortByDateDescending(_)
sortByDateDescending(events) ==
  IF events = <<>> THEN <<>>
  ELSE LET first ==
             CHOOSE i \in 1..Len(events) :
               /\ \A j \in 1..Len(events) : events[j].date <= events[i].date
               /\ \A j \in 1..(i - 1) : events[j].date < events[i].date
           rest == [j \in 1..(Len(events) - 1) |->
                      IF j < first THEN events[j] ELSE events[j + 1]]
       IN  <<events[first]>> \o sortByDateDescending(rest)

\* The end of findSimilarHistoricalEvent: the latest of the similar events,
\* or None for null.
latestOf(events) ==
  LET similarEvents == events
  IN  IF Len(similarEvents) > 0
        THEN Some(sortByDateDescending(similarEvents)[1])
        ELSE None

\* findSimilarHistoricalEvent: the event, or None for null.
findSimilarHistoricalEvent(currentWeather, era5Context) ==
  LET tolerances == getTolerances(era5Context)
      Similar(event) == isSimilarEvent(event, currentWeather, tolerances,
                                       era5Context)
  IN  latestOf(SelectSeq(historicalEvents, Similar))

-----------------------------------------------------------------------------
(* SpecMatch: findSimilarHistoricalEvent on a grid of inputs               *)

MatchPrecipitationGrid == {0, 1000, 2230, 3500, 6500, 9000}
MatchWindSpeedGrid     == {0, 1000, 2470, 4000, 6000, 9500}
MatchTemperatureGrid   == {-2000, -500, 500, 1840, 3000, 4000, 6000}

MatchWeathers ==
  [precipitation : MatchPrecipitationGrid, windSpeed : MatchWindSpeedGrid,
   temperature : MatchTemperatureGrid, pressure : {101300}]

\* Readings at the very end of a range: a temperature of 4.3, which is
\* minTemperature - 8 of DANA Valencia-Madrid (12.3) in exact arithmetic,
\* and a precipitation of 58, which is 12.8 from the maximum of Storm
\* Filomena (45.2), 12.8 being the tolerance under a precipitation anomaly
\* of 1.1.
BoundaryWeathers ==
  { [precipitation |-> 7840, windSpeed |-> 9210, temperature |-> 430,
     pressure |-> 101300],
    [precipitation |-> 5800, windSpeed |-> 8850, temperature |-> -680,
     pressure |-> 101300] }

\* The era5Context argument: omitted, or a context whose anomalies leave the
\* tolerances at their defaults, narrow them part of the way, or narrow
\* them to their floors.
MatchContexts ==
  { None }
    \cup { Some([anomaly |-> [temperature |-> a[1], precipitation |-> a[2],
                              windSpeed |-> a[3]]]) :
             a \in { <<0, 0, 0>>, <<-250, 110, -130>>, <<900, -400, 350>> } }

MatchStart ==
  /\ mtWeather \in { Some(w) : w \in MatchWeathers \cup BoundaryWeathers }
  /\ mtContext \in MatchContexts
  /\ mtEvent = NotReturned

InitMatch ==
  MatchStart /\ AdapterIdle /\ SimulatorIdle /\ RecommendIdle /\ ScoreIdle
    /\ ServerIdle /\ HookInit

\* One call findSimilarHistoricalEvent(currentWeather, era5Context).
ApplyMatch ==
  /\ mtEvent = NotReturned
  /\ mtEvent' = Returned(findSimilarHistoricalEvent(mtWeather[1], mtContext))
  /\ UNCHANGED <<mtWeather, mtContext>>
  /\ UNCHANGED <<scoreVars, serverVars, hookVars, adapterVars, simulatorVars,
                 recommendVars>>

NextMatch == ApplyMatch

SpecMatch == InitMatch /\ [][NextMatch]_vars

-----------------------------------------------------------------------------
(* Source adapters: app/api/weather/route.ts                               *)

\* How a block of code ends: it returns a value, or it throws an Error
\* with a message.
Return(v) == [thrown |-> FALSE, value |-> Some(v), message |-> ""]

Throw(m) == [thrown |-> TRUE, value |-> None, message |-> m]

\* The missing-value marker of the NASA series, in hundredths.
NASA_SENTINEL == -99900

\* x || d on an optional number: undefined, NaN and 0 are falsy.
OrDefault(x, d) == IF Truthy(x) THEN x[1] ELSE d

\* fetchNASAData, the body of its try block from window i on.  A window's
\* answer: a rejected fetch, an HTTP error, a body that is not JSON, a body
\* without properties.parameter, one with no dates under T2M_MAX, one with
\* dates but lacking the RH2M parameter, or a series, given by its values
\* on the latest date (None where the parameter has no entry for that
\* date).  PS is in the provider's unit, the other values in hundredths.
RECURSIVE fetchNASAWindows(_, _)
fetchNASAWindows(windows, i) ==
  IF i > Len(windows)
    THEN Throw("NASA data not available for any tested date range")
  ELSE LET w == windows[i]
       IN  CASE w.kind = "networkError" -> Throw("fetch failed")
             [] w.kind = "httpError" -> fetchNASAWindows(windows, i + 1)
             [] w.kind = "badJson" -> Throw("Unexpected token in JSON")
             [] w.kind = "noProperties" -> fetchNASAWindows(windows, i + 1)
             [] w.kind = "noDates" -> fetchNASAWindows(windows, i + 1)
             [] w.kind = "missingParameter" ->
                  Throw("Cannot read properties of undefined")
             [] w.kind = "series" ->
                  IF /\ w.T2M_MAX # None /\ w.RH2M # None
                     /\ w.T2M_MAX[1] # NASA_SENTINEL
                     /\ w.RH2M[1] # NASA_SENTINEL
                    THEN Return(
                      sourceSuccess("NASA", w.T2M_MAX, w.RH2M,
                        Some(Max(0, OrDefault(w.PRECTOTCORR, 0))),
                        Some(OrDefault(w.WS2M, 500)),
                        Some(18000),
                        Some(OrDefault(w.PS, 1013000))))
                    ELSE fetchNASAWindows(windows, i + 1)

fetchNASAData_NoCatch(windows) == fetchNASAWindows(windows, 1)

\* fetchNASAData: the try block, and the catch block that turns whatever
\* was thrown into an error result.
fetchNASAData(windows) ==
  LET body == fetchNASAWindows(windows, 1)
  IN  IF body.thrown THEN Return(sourceError("NASA", body.message))
      ELSE body

\* parseFloat(x) || undefined on a station field: None where the field is
\* missing or does not parse (NaN), and where it parses to 0.
parsedOrUndefined(raw) == IF Truthy(raw) THEN raw ELSE None

\* fetchAEMETData, the body of its try block.  up.latest holds the fields
\* of the last row as parseFloat reads them (None for NaN).
fetchAEMETBody(up) ==
  IF ~up.apiKey THEN Throw("AEMET API key not found")
  ELSE IF up.observation = "networkError" THEN Throw("fetch failed")
  ELSE IF up.observation = "httpError" THEN Throw("AEMET API error: 500")
  ELSE IF up.observation = "badJson" THEN Throw("Unexpected token in JSON")
  ELSE IF up.observation = "noDatos" THEN Throw("No AEMET data available")
  ELSE IF up.datos = "networkError" THEN Throw("fetch failed")
  ELSE IF up.datos = "badJson" THEN Throw("Unexpected token in JSON")
  ELSE IF up.datos = "empty" THEN Throw("No AEMET data available")
  ELSE IF up.datos = "nullRow"
    THEN Throw("Cannot read properties of null")
  ELSE Return(
         sourceSuccess("AEMET",
           parsedOrUndefined(up.latest.ta),
           parsedOrUndefined(up.latest.hr),
           Some(OrDefault(up.latest.prec, 0)),
           parsedOrUndefined(up.latest.vv),
           parsedOrUndefined(up.latest.dv),
           parsedOrUndefined(up.latest.pres)))

fetchAEMETData(up) ==
  LET body == fetchAEMETBody(up)
  IN  IF body.thrown THEN Return(sourceError("AEMET", body.message))
      ELSE body

\* The dates of the hourly entries, each once, in order of first
\* appearance: the keys of days.
RECURSIVE dayKeys(_)
dayKeys(hours) ==
  IF hours = <<>> THEN <<>>
  ELSE LET before == dayKeys(SubSeq(hours, 1, Len(hours) - 1))
           date == hours[Len(hours)].date
       IN  IF \E k \in 1..Len(before) : before[k] = date
             THEN before ELSE Append(before, date)

\* fetchERA5HistoricalData, the body of its try block: the daily records,
\* precipitation as the day's sum and the other fields as sum / 24.
fetchERA5Body(up) ==
  CASE up.kind = "networkError" -> Throw("fetch failed")
    [] up.kind = "httpError" -> Throw("Open-Meteo ERA5 API error: 500")
    [] up.kind = "badJson" -> Throw("Unexpected token in JSON")
    [] up.kind = "noHourly" -> Throw("No hourly data in ERA5 response")
    [] up.kind = "noTime" -> Throw("Cannot read properties of undefined")
    [] up.kind = "hourly" ->
         LET keys == dayKeys(up.hours)
         IN  Return([k \in 1..Len(keys) |-> era5Day(up.hours, keys[k])])

fetchERA5HistoricalData(up) ==
  LET body == fetchERA5Body(up)
  IN  IF body.thrown THEN Return(<<>>) ELSE body

-----------------------------------------------------------------------------
(* SpecAdapter: one call of a source adapter                               *)

\* An Open-Meteo answer holds at most MaxHours hourly entries.
MaxHours == 2

NasaSeries ==
  [kind : {"series"},
   T2M_MAX : {Some(2000), Some(NASA_SENTINEL)},
   RH2M : {Some(7000), Some(NASA_SENTINEL), None},
   PRECTOTCORR : {Some(200), Some(NASA_SENTINEL), None},
   WS2M : {Some(800), Some(0), Some(NASA_SENTINEL)},
   PS : {Some(101300), Some(-999), None}]

NasaFailures ==
  { [kind |-> k] :
      k \in {"networkError", "httpError", "badJson", "noProperties",
             "noDates", "missingParameter"} }

\* The answers to the three date windows: any answer to the first, and to
\* the later ones an HTTP error, a rejected fetch or a good series.
NasaUpstreams ==
  { <<w1, w2, w3>> :
      w1 \in NasaSeries \cup NasaFailures,
      w2 \in { [kind |-> "httpError"], [kind |-> "networkError"],
               [kind |-> "series", T2M_MAX |-> Some(2400),
                RH2M |-> Some(6000), PRECTOTCORR |-> Some(0),
                WS2M |-> Some(1000), PS |-> Some(100800)] },
      w3 \in { [kind |-> "httpError"], [kind |-> "noDates"],
               [kind |-> "series", T2M_MAX |-> Some(2400),
                RH2M |-> Some(6000), PRECTOTCORR |-> Some(0),
                WS2M |-> Some(1000), PS |-> Some(-999)] } }

AemetRows ==
  [ta : {Some(1840), Some(0), None}, hr : {Some(6500), None},
   prec : {Some(120), Some(0), None}, vv : {Some(500), Some(0), None},
   dv : {Some(22500), Some(0), None}, pres : {Some(101300), None}]

AemetUpstreams ==
  [apiKey : BOOLEAN,
   observation : {"networkError", "httpError", "badJson", "noDatos", "ok"},
   datos : {"networkError", "badJson", "empty", "nullRow"},
   latest : {[ta |-> None, hr |-> None, prec |-> None, vv |-> None,
              dv |-> None, pres |-> None]}]
    \cup [apiKey : BOOLEAN, observation : {"ok", "httpError"},
          datos : {"rows"}, latest : AemetRows]

Era5Hours ==
  [date : {1, 2}, temperature : {Some(1600), None}, humidity : {Some(6000)},
   precipitation : {Some(0), Some(200)}, windSpeed : {Some(400)},
   pressure : {Some(101000)}]

Era5Upstreams ==
  { [kind |-> k, hours |-> <<>>] :
      k \in {"networkError", "httpError", "badJson", "noHourly", "noTime"} }
    \cup { [kind |-> "hourly", hours |-> h] :
             h \in UNION { [1..n -> Era5Hours] : n \in 0..MaxHours } }

AdapterStart ==
  /\ \/ adAdapter = "NASA" /\ adUpstream \in { Some(u) : u \in NasaUpstreams }
     \/ adAdapter = "AEMET" /\ adUpstream \in { Some(u) : u \in AemetUpstreams }
     \/ adAdapter = "ERA5" /\ adUpstream \in { Some(u) : u \in Era5Upstreams }
  /\ adResult = NotReturned

InitAdapter ==
  AdapterStart /\ MatchIdle /\ SimulatorIdle /\ RecommendIdle /\ ScoreIdle
    /\ ServerIdle /\ HookInit

FetchNASA ==
  /\ adAdapter = "NASA"
  /\ adResult = NotReturned
  /\ adResult' = Returned(fetchNASAData(adUpstream[1]))
  /\ UNCHANGED <<adAdapter, adUpstream>>
  /\ UNCHANGED <<scoreVars, serverVars, hookVars, matchVars, simulatorVars,
                 recommendVars>>

FetchAEMET ==
  /\ adAdapter = "AEMET"
  /\ adResult = NotReturned
  /\ adResult' = Returned(fetchAEMETData(adUpstream[1]))
  /\ UNCHANGED <<adAdapter, adUpstream>>
  /\ UNCHANGED <<scoreVars, serverVars, hookVars, matchVars, simulatorVars,
                 recommendVars>>

FetchERA5 ==
  /\ adAdapter = "ERA5"
  /\ adResult = NotReturned
  /\ adResult' = Returned(fetchERA5HistoricalData(adUpstream[1]))
  /\ UNCHANGED <<adAdapter, adUpstream>>
  /\ UNCHANGED <<scoreVars, serverVars, hookVars, matchVars, simulatorVars,
                 recommendVars>>

NextAdapter == FetchNASA \/ FetchAEMET \/ FetchERA5

SpecAdapter == InitAdapter /\ [][NextAdapter]_vars

-----------------------------------------------------------------------------
(* DANASimulator.tsx: the simulation panel                                 *)

\* validateWeatherData: the ranges, in hundredths.
validRanges ==
  [temperature |-> [min |-> -4000, max |-> 5000],
   precipitation |-> [min |-> 0, max |-> 10000],
   windSpeed |-> [min |-> 0, max |-> 6000],
   humidity |-> [min |-> 0, max |-> 10000],
   pressure |-> [min |-> 95000, max |-> 105000]]

validateWeatherData_NoPressure(data) ==
  \A key \in DOMAIN data :
    key \in DOMAIN validRanges \ {"pressure"} =>
      /\ compareToBound(data[key], validRanges[key].min) >= 0
      /\ compareToBound(data[key], validRanges[key].max) <= 0

\* validateWeatherData(data): every entry that has a range lies within it.
validateWeatherData(data) ==
  \A key \in DOMAIN data :
    key \in DOMAIN validRanges =>
      /\ compareToBound(data[key], validRanges[key].min) >= 0
      /\ compareToBound(data[key], validRanges[key].max) <= 0

\* The three scenarios of the panel, as built by a render at time t; of the
\* timeline only its length matters here.
danaScenarios(t) ==
  { [name |-> r.name, data |-> scenarioDataOf(r, t), timelineLength |-> 4] :
      r \in scenarioReadings }

\* The delay between two phases of a timeline, and the delay after the last
\* one, in milliseconds.
PHASE_DELAY == 8000

END_DELAY == 2000

\* The queue q of pending timers with tm added: timers fire by due time, and
\* timers due together fire in the order they were set.
InsertTimer(q, tm) ==
  LET before == SelectSeq(q, LAMBDA x : x.due <= tm.due)
      after == SelectSeq(q, LAMBDA x : x.due > tm.due)
  IN  before \o <<tm>> \o after

\* The timers simulateDANA(scenario) sets at time t: one per phase, the last
\* of which calls onSimulate, and the one that ends the simulation. Each
\* keeps the scenario and the platforms of the render that was clicked.
RECURSIVE setPhaseTimers(_, _, _, _, _)
setPhaseTimers(q, scenario, ps, t, phase) ==
  IF phase >= scenario.timelineLength
    THEN InsertTimer(q, [due |-> t + scenario.timelineLength * PHASE_DELAY
                                  + END_DELAY,
                         kind |-> "end", phase |-> phase,
                         scenario |-> scenario, ps |-> ps])
    ELSE setPhaseTimers(
           InsertTimer(q, [due |-> t + phase * PHASE_DELAY,
                           kind |-> "phase", phase |-> phase,
                           scenario |-> scenario, ps |-> ps]),
           scenario, ps, t, phase + 1)

-----------------------------------------------------------------------------
(* SpecSimulator: the simulation panel driving the hook's simulateWeather  *)

\* How many scenarios are started in one run of the panel.
MaxRuns == 1

\* Values that probe each range of validateWeatherData: on each bound, and
\* one hundredth beyond it.
RangeProbes ==
  UNION { { [key |-> key, value |-> NumberOf(v)] :
              v \in {validRanges[key].min - 1, validRanges[key].min,
                     validRanges[key].max, validRanges[key].max + 1} } :
          key \in DOMAIN validRanges }

\* The scenarios handed to simulateDANA: the panel's own, and each of them
\* with one field of its data moved to a probe value.
Scenarios(t) ==
  danaScenarios(t)
    \cup { [sp[1] EXCEPT !.data[sp[2].key] = sp[2].value] :
             sp \in danaScenarios(t) \X RangeProbes }

InitSimulator ==
  SimulatorIdle /\ MatchIdle /\ AdapterIdle /\ RecommendIdle /\ ScoreIdle
    /\ ServerIdle
    /\ HookInit

\* The checkbox of the notice: onChange sets acknowledgedSimulation.
SetAcknowledged ==
  /\ acknowledgedSimulation' = ~acknowledgedSimulation
  /\ dsLastCall' = Some([op |-> "setAcknowledgedSimulation", data |-> None])
  /\ UNCHANGED <<dsIsSimulating, simulationPhase, selectedScenario,
                 showTimeline, dsTimers, dsRuns>>
  /\ UNCHANGED <<scoreVars, serverVars, hookVars, matchVars, adapterVars,
                 recommendVars>>

\* simulateDANA(scenario), called at time now.
SimulateDANA ==
  /\ \E scenario \in Scenarios(now) :
       /\ dsLastCall' =
            Some([op |-> "simulateDANA", data |-> Some(scenario.data)])
       /\ IF ~acknowledgedSimulation
            THEN UNCHANGED <<simulatorStateVars, dsRuns>>
            ELSE IF ~validateWeatherData(scenario.data)
              THEN UNCHANGED <<simulatorStateVars, dsRuns>>
              ELSE /\ dsRuns < MaxRuns
                   /\ selectedScenario' = Some(scenario)
                   /\ showTimeline' = TRUE
                   /\ dsIsSimulating' = TRUE
                   /\ simulationPhase' = 0
                   /\ dsTimers' =
                        setPhaseTimers(dsTimers, scenario, platforms, now, 0)
                   /\ dsRuns' = dsRuns + 1
                   /\ UNCHANGED acknowledgedSimulation
  /\ UNCHANGED <<scoreVars, serverVars, hookVars, matchVars, adapterVars,
                 recommendVars>>

\* The timer due first fires: a phase of the timeline, the last of which
\* hands the scenario's data to onSimulate, or the end of the simulation.
TimerFires ==
  /\ dsTimers # <<>>
  /\ LET tm == Head(dsTimers)
         time == Max(now, tm.due)
     IN  /\ now' = time
         /\ dsTimers' = Tail(dsTimers)
         /\ IF tm.kind = "phase"
              THEN /\ simulationPhase' = tm.phase
                   /\ UNCHANGED dsIsSimulating
                   /\ IF tm.phase = tm.scenario.timelineLength - 1
                        THEN simulateWeatherCall(tm.scenario.data, tm.ps, time)
                        ELSE UNCHANGED <<stateVars, nextTick, inflight,
                                         historyVars>>
              ELSE /\ dsIsSimulating' = FALSE
                   /\ UNCHANGED simulationPhase
                   /\ UNCHANGED <<stateVars, nextTick, inflight, historyVars>>
  /\ dsLastCall' = Some([op |-> "setTimeout", data |-> None])
  /\ UNCHANGED <<selectedScenario, showTimeline, acknowledgedSimulation,
                 dsRuns>>
  /\ UNCHANGED <<scoreVars, serverVars, matchVars, adapterVars, recommendVars>>

\* A click on the panel's Reset button, which is disabled while the panel's
\* isSimulating is set: resetSimulation() of the panel clears the panel's
\* state and calls onReset, the hook's resetSimulation.  Timers still
\* pending are not cleared.
dsResetSimulation ==
  /\ ~dsIsSimulating
  /\ dsIsSimulating' = FALSE
  /\ simulationPhase' = 0
  /\ selectedScenario' = None
  /\ showTimeline' = FALSE
  /\ resetSimulationCall
  /\ dsLastCall' = Some([op |-> "resetSimulation", data |-> None])
  /\ UNCHANGED <<acknowledgedSimulation, dsTimers, dsRuns>>
  /\ UNCHANGED now
  /\ UNCHANGED <<scoreVars, serverVars, matchVars, adapterVars, recommendVars>>

NextSimulator ==
  SetAcknowledged \/ SimulateDANA \/ TimerFires \/ dsResetSimulation

SpecSimulator == InitSimulator /\ [][NextSimulator]_vars

-----------------------------------------------------------------------------
(* Recommendation engine: lib/copernicusAPI.ts                             *)

\* The anomalyBonus table of the branch with a similar event.
matchAnomalyBonus(level) ==
  CASE level = "extreme"  -> 15
    [] level = "high"     -> 10
    [] level = "moderate" -> 5
    [] level = "normal"   -> 0

\* The bonus table of the branch without a similar event.
noMatchAnomalyBonus(level) ==
  CASE level = "extreme"  -> 20
    [] level = "high"     -> 15
    [] level = "moderate" -> 5
    [] level = "normal"   -> 0

\* Math.min(100, score + bonus), for a rational score.
cappedScore(score, bonus) ==
  IF score.num + bonus * score.den > 100 * score.den
    THEN Rat(100, 1) ELSE Rat(score.num + bonus * score.den, score.den)

\* score >= k, for a rational score.
AtLeast(score, k) == score.num >= k * score.den

\* The confidence after the ERA5 insights.
insightConfidence(era5Validation, era5Context) ==
  IF era5Validation # None /\ era5Context # None
    THEN CASE era5Validation[1].anomalyLevel = "extreme"  -> Max(50, 90)
           [] era5Validation[1].anomalyLevel = "high"     -> Max(50, 80)
           [] era5Validation[1].anomalyLevel = "moderate" -> Max(50, 70)
           [] era5Validation[1].anomalyLevel = "normal"   -> Min(50 + 10, 95)
    ELSE 50

\* generateHistoricalRecommendations: the similar event behind
\* historicalContext, the confidence, the warning level and the number of
\* recommendations; the texts themselves are left out.
generateHistoricalRecommendations(currentWeather, currentRiskScore, era5Validation, era5Context) ==
  LET similarEvent == findSimilarHistoricalEvent(currentWeather, era5Context)
      isExtreme ==
        era5Validation # None /\ era5Validation[1].anomalyLevel = "extreme"
  IN  IF similarEvent # None
        THEN
          LET adjustedRiskScore ==
                IF era5Validation # None
                  THEN cappedScore(currentRiskScore,
                         matchAnomalyBonus(era5Validation[1].anomalyLevel))
                  ELSE currentRiskScore
          IN  [similarEvent |-> similarEvent,
               confidence |->
                 Max(insightConfidence(era5Validation, era5Context), 85),
               warningLevel |->
                 IF AtLeast(adjustedRiskScore, 70) THEN "warning"
                 ELSE IF AtLeast(adjustedRiskScore, 50) THEN "advisory"
                 ELSE IF AtLeast(adjustedRiskScore, 30) THEN "watch"
                 ELSE "info",
               recommendationCount |->
                 IF AtLeast(adjustedRiskScore, 70)
                   THEN (IF isExtreme THEN 7 ELSE 6)
                 ELSE IF AtLeast(adjustedRiskScore, 50) THEN 6
                 ELSE IF AtLeast(adjustedRiskScore, 30) THEN 4
                 ELSE 3]
        ELSE
          LET effectiveScore ==
                IF era5Validation # None
                  THEN cappedScore(currentRiskScore,
                         noMatchAnomalyBonus(era5Validation[1].anomalyLevel))
                  ELSE currentRiskScore
          IN  [similarEvent |-> None,
               confidence |-> insightConfidence(era5Validation, era5Context),
               warningLevel |->
                 IF AtLeast(effectiveScore, 50)
                   THEN (IF isExtreme THEN "advisory" ELSE "watch")
                   ELSE "info",
               recommendationCount |->
                 IF AtLeast(effectiveScore, 50)
                   THEN (IF isExtreme THEN 5 ELSE 4)
                   ELSE 3]

-----------------------------------------------------------------------------
(* SpecRecommend: generateHistoricalRecommendations on a grid of inputs    *)

\* Readings with and without a similar event in the catalog.
RecommendWeathers ==
  [precipitation : {2230, 9000}, windSpeed : {2470, 9500},
   temperature : {1840, 6000}, pressure : {101300}]

\* Average risk scores of the eight platforms, in eighths of a point: on
\* each bucket edge, just below it, and between the edges.
RecommendScores ==
  { Rat(n, 8) : n \in {0, 120, 239, 240, 280, 399, 400, 440, 520, 559, 560,
                       680, 800} }

RecommendValidations ==
  { None }
    \cup { Some([anomalyLevel |-> l, confidence |-> 80,
                 similarDaysFound |-> 3, dataSource |-> "Open-Meteo ERA5"]) :
             l \in AnomalyLevels }

RecommendStart ==
  /\ rcWeather \in { Some(w) : w \in RecommendWeathers }
  /\ rcScore \in { Some(r) : r \in RecommendScores }
  /\ rcValidation \in RecommendValidations
  /\ rcContext \in MatchContexts
  /\ rcResult = NotReturned

InitRecommend ==
  RecommendStart /\ MatchIdle /\ AdapterIdle /\ SimulatorIdle /\ ScoreIdle
    /\ ServerIdle /\ HookInit

\* One call generateHistoricalRecommendations(...).
ApplyRecommend ==
  /\ rcResult = NotReturned
  /\ rcResult' =
       Returned(generateHistoricalRecommendations(
                  rcWeather[1], rcScore[1], rcValidation, rcContext))
  /\ UNCHANGED <<rcWeather, rcScore, rcValidation, rcContext>>
  /\ UNCHANGED <<scoreVars, serverVars, hookVars, matchVars, adapterVars,
                 simulatorVars>>

NextRecommend == ApplyRecommend

SpecRecommend == InitRecommend /\ [][NextRecommend]_vars

-----------------------------------------------------------------------------
(* Claims about the risk scoring engine, checked under SpecScore           *)

Scored == scScore # NoScore

\* C1: for every reading with precipitation >= 0 and wind speed >= 0, every
\* platform with exposure in [0,1] and every anomaly factor,
\* calculateRiskScore returns an integer in [0,100].
C1_ScoreInRange ==
  (Scored /\ scWeather.precipitation >= 0 /\ scWeather.windSpeed >= 0
          /\ scPlatform.exposure \in 0..100)
    => scScore[1] \in 0..100

\* The clamp acts: the rounded adjusted score exceeds 100 and 100 is returned.
C1_Witness ==
  /\ Scored
  /\ weightedScore(scReading, scPlatform).den = 1
  /\ MathRound(weightedScore(scReading, scPlatform).num
                 * era5AnomalyToRiskFactor(scLevel), 10000000) > 100
  /\ scScore[1] = 100

\* C2: the score is the weighted sum 0.30*P + 0.25*W + 0.15*E + 0.10*H +
\* 0.10*T + 0.10*B times f, rounded and clamped to [0,100], with E, H, T, B
\* and f as the specification gives them.  Rounded: an integer nearest to
\* the product; where the product lies halfway between two integers,
\* either of them.
C2_E == IF scPlatform.isRoofed THEN 0 ELSE scPlatform.exposure * 1000
C2_H == IF scWeather.humidity > 8500 THEN 60000 ELSE 0
C2_T ==
  IF scWeather.temperature > 3500
    THEN 40000 + 5 * (scWeather.temperature - 3500) * 10
    ELSE IF scWeather.temperature < 0
      THEN 60000 + 5 * Abs(scWeather.temperature) * 10
      ELSE 0
C2_B == IF scWeather.pressure < 100000 THEN 40000 ELSE 0
C2_f ==
  CASE scLevel = "normal"   -> 100
    [] scLevel = "moderate" -> 105
    [] scLevel = "high"     -> 115
    [] scLevel = "extreme"  -> 120
C2_P == precipitationFactor(scReading)
C2_W == windFactor(scReading)
C2_Sum ==
    30 * C2_P.num + 25 * C2_W.num
  + 15 * C2_E + 10 * C2_H + 10 * C2_T + 10 * C2_B

C2_WeightedFormula ==
  Scored =>
    /\ C2_P.den = 1 /\ C2_W.den = 1
    /\ \E r \in 0..200 :
         /\ Abs(10000000 * r - C2_Sum * C2_f) <= 5000000
         /\ scScore[1] = Max(0, Min(100, r))

\* Every term of the sum is present and the factor is above 1.
C2_Witness ==
  /\ Scored
  /\ scWeather.precipitation = 275 /\ scWeather.windSpeed = 1100
  /\ ~scPlatform.isRoofed /\ scPlatform.exposure = 60
  /\ scWeather.humidity = 8600 /\ scWeather.temperature = 3600
  /\ scWeather.pressure = 99800 /\ scLevel = "high"
  /\ scScore[1] = 54

\* C3 (as stated): the precipitation factor is 0 below 0.5 mm/h, ramps
\* linearly from 20 at 0.5 to about 53 at 5 mm/h, and above 5 ramps from 50
\* up to a cap of 100; the wind factor is 0 below 8 m/s, ramps from 30 at 8
\* to about 70 at 14 m/s, and above 14 ramps from 70 up to a cap of 100.
\* "About n" is read as: rounds to n.
C3_RampsAsStated(reachesAt5) ==
  LET p  == scWeather.precipitation
      w  == scWeather.windSpeed
      pf == precipitationFactor(scReading)
      wf == windFactor(scReading)
  IN  /\ p < 50 => pf = Rat(0, 1)
      /\ (p > 50 /\ p <= 500) => pf = Rat(20000 + 67 * (p - 50), 1)
      /\ p = 500 => MathRound(pf.num, 1000 * pf.den) = reachesAt5
      /\ p > 500 => pf = Rat(Min(100000, 50000 + 100 * (p - 500)), 1)
      /\ w < 800 => wf = Rat(0, 1)
      /\ (w > 800 /\ w <= 1400) => wf = Rat(30000 + 67 * (w - 800), 1)
      /\ w = 1400 => MathRound(wf.num, 1000 * wf.den) = 70
      /\ w > 1400 => wf = Rat(Min(100000, 70000 + 30 * (w - 1400)), 1)

C3_Original == Scored => C3_RampsAsStated(53)

\* C3 (amended): as stated, except that the precipitation ramp reaches
\* 50.15 (about 50) at 5 mm/h, and that at exactly 0.5 mm/h and exactly 8 m/s
\* the factor is still 0.
C3_Ramps ==
  Scored =>
    /\ C3_RampsAsStated(50)
    /\ scWeather.precipitation = 500
         => precipitationFactor(scReading) = Rat(50150, 1)
    /\ scWeather.precipitation = 50
         => precipitationFactor(scReading) = Rat(0, 1)
    /\ scWeather.windSpeed = 800 => windFactor(scReading) = Rat(0, 1)

C3_Witness ==
  /\ Scored
  /\ scWeather.precipitation = 500
  /\ scWeather.windSpeed = 1400

\* C4: the score is monotonically non-decreasing in precipitation, in wind
\* speed and in the anomaly factor, the other inputs held fixed.
C4_Monotone ==
  Scored =>
    LET f == era5AnomalyToRiskFactor(scLevel)
    IN  /\ \A p2 \in PrecipitationGrid :
             p2 > scWeather.precipitation =>
               calculateRiskScore(
                 readingOf([scWeather EXCEPT !.precipitation = p2]),
                 scPlatform, f) >= scScore[1]
        /\ \A w2 \in WindSpeedGrid :
             w2 > scWeather.windSpeed =>
               calculateRiskScore(
                 readingOf([scWeather EXCEPT !.windSpeed = w2]),
                 scPlatform, f) >= scScore[1]
        /\ \A l2 \in AnomalyLevels :
             era5AnomalyToRiskFactor(l2) > f =>
               calculateRiskScore(scReading, scPlatform,
                                  era5AnomalyToRiskFactor(l2)) >= scScore[1]

\* C5: for a roofed platform the exposure contribution is exactly 0: the
\* score is the same for every value of the exposure field.
C5_RoofedIgnoresExposure ==
  (Scored /\ scPlatform.isRoofed) =>
    /\ exposureFactor(scPlatform) = 0
    /\ \A e \in ExposureGrid :
         calculateRiskScore(scReading, [scPlatform EXCEPT !.exposure = e],
                            era5AnomalyToRiskFactor(scLevel)) = scScore[1]

C5_Witness ==
  /\ Scored
  /\ scPlatform.isRoofed
  /\ scPlatform.exposure = 90

-----------------------------------------------------------------------------
(* Claims about the weather query, checked under SpecServer                *)

Responded == srvPc = "done"

AllSourcesFailed ==
  /\ srvAemet[1].status = "error"
  /\ srvNasa[1].status = "error"
  /\ srvCopernicus[1].status = "error"

\* Every shape of baseline outcome fusionConfidence can be handed.
ValidationOutcomes ==
  [status : {"success", "error"},
   validation : [anomalyLevel : AnomalyLevels, confidence : 0..100]]

\* The confidence fusion assigns, for every number of successful sources
\* and every outcome of the baseline validation.
FusionConfidenceInRange ==
  \A n \in 0..2, c \in ValidationOutcomes :
    fusionConfidence(n, c) \in 30..95

\* C6: the confidence of the fused reading is in [30,95] for every
\* combination of AEMET and NASA success or failure, baseline validation
\* success or failure, every anomaly level and every validator confidence.
C6_ConfidenceBounded ==
  /\ Responded =>
       /\ srvResponse[1].confidence \in 30..95
       /\ srvResponse[1].metadata.confidence = srvResponse[1].confidence
  /\ FusionConfidenceInRange

\* A degraded answer: AEMET failed, NASA answered, the baseline validated an
\* extreme anomaly and the confidence dropped below the one-source base.
C6_Witness ==
  /\ Responded
  /\ srvAemet[1].status = "error"
  /\ srvNasa[1].status = "success"
  /\ srvCopernicus[1].status = "success"
  /\ srvCopernicus[1].validation.anomalyLevel = "extreme"
  /\ srvResponse[1].confidence < 75

\* C7: if both source adapters and the baseline validation fail, the query
\* still returns a complete reading and its confidence is exactly 20.
C7_AllFailedConfidence ==
  (Responded /\ AllSourcesFailed) =>
    /\ {"timestamp", "temperature", "humidity", "precipitation", "windSpeed",
        "windDirection", "pressure"} \subseteq DOMAIN srvResponse[1]
    /\ srvResponse[1].confidence = 20

\* The normalizedAnomaly that calculateAnomalyLevel computes for a value
\* against a series is exactly k.  Its doubles being within 10^-12 of the
\* exact values, it can be k only where the value is k standard deviations
\* from the mean in exact arithmetic, which is tested first.
NormalizedAnomalyIs(currentValue, historicalValues, k) ==
  LET d == Deviations(currentValue, historicalValues)
  IN  /\ d.varianceTimesN2 > 0
      /\ d.anomalyTimesN * d.anomalyTimesN = k * k * d.varianceTimesN2
      /\ DoubleCompare(normalizedAnomalyDouble(currentValue, historicalValues),
                       DoubleOf(k, 1)) = 0

Validated == srvPc \in {"fuse", "done"} /\ Len(srvEra5[1]) > 0

\* The four tracked parameters: the current value and the historical values
\* that fetchCopernicusHistoricalContext hands to calculateAnomalyLevel.
TrackedParameters ==
  LET cw == currentWeatherOf(srvAemet[1], srvNasa[1])
  IN  { <<cw.temperature, FieldValues(srvEra5[1], "temperature")>>,
        <<cw.precipitation, FieldValues(srvEra5[1], "precipitation")>>,
        <<cw.windSpeed, FieldValues(srvEra5[1], "windSpeed")>>,
        <<cw.pressure, FieldValues(srvEra5[1], "pressure")>> }

BucketsAt(atOne, atTwo, atThree) ==
  \A tp \in TrackedParameters :
    LET level == calculateAnomalyLevel(tp[1], tp[2], 0).level
    IN  /\ NormalizedAnomalyIs(tp[1], tp[2], 1) => level = atOne
        /\ NormalizedAnomalyIs(tp[1], tp[2], 2) => level = atTwo
        /\ NormalizedAnomalyIs(tp[1], tp[2], 3) => level = atThree

\* C10 (as stated): a normalized anomaly of exactly 1.0 yields moderate,
\* exactly 2.0 yields high and exactly 3.0 yields extreme.
C10_Original == Validated => BucketsAt("moderate", "high", "extreme")

\* C10 (amended): the comparisons are strict, so exactly 1.0 yields normal,
\* exactly 2.0 yields moderate and exactly 3.0 yields high.
C10_StrictBuckets == Validated => BucketsAt("normal", "moderate", "high")

\* Temperature exactly 1, precipitation exactly 2 and wind speed exactly 3
\* standard deviations from the mean; the overall level is high.
C10_Witness ==
  /\ Validated
  /\ LET cw == currentWeatherOf(srvAemet[1], srvNasa[1])
     IN  /\ NormalizedAnomalyIs(cw.temperature, FieldValues(srvEra5[1], "temperature"), 1)
         /\ NormalizedAnomalyIs(cw.precipitation,
                                FieldValues(srvEra5[1], "precipitation"), 2)
         /\ NormalizedAnomalyIs(cw.windSpeed, FieldValues(srvEra5[1], "windSpeed"), 3)
  /\ srvCopernicus[1].validation.anomalyLevel = "high"

-----------------------------------------------------------------------------
(* Claims about the useWeatherData hook, checked under Spec                *)

\* Every platform's riskScore is in [0,100] in every state of the hook:
\* the scoring engine's range (C1) carries over to the scores on display.
PlatformScoresInRange ==
  \A i \in 1..Len(platforms) :
    platforms[i].riskScore >= 0 /\ platforms[i].riskScore <= 100

\* C8: after any sequence of periodic and manual refreshes, a call of
\* simulateWeather made while a fused reading is on display, followed
\* directly by resetSimulation, puts back on display exactly that reading
\* (all its fields, with its sources), its confidence and its source label.
C8_RoundTrip ==
  [][(shownBeforeSim # None /\ ResetSimulation)
       => Displayed' = shownBeforeSim[1]]_vars

\* C9: a call of the manual refresh trigger made less than the cool-down
\* after a call of it that issued a fetch is a no-op: it issues no fetch and
\* changes neither the platform risk scores nor any other state of the
\* hook, whether the first call's fetch is still awaiting its response, has
\* succeeded or has failed.
C9_SecondManualCallIsNoOp ==
  [][(/\ RefreshData
      /\ lastManualFetch # None
      /\ now - lastManualFetch[1] < MIN_MANUAL_UPDATE_INTERVAL)
       => UNCHANGED <<stateVars, inflight>>]_vars

-----------------------------------------------------------------------------
(* Claims about the pattern matcher, checked under SpecMatch               *)

Matched == mtEvent # NotReturned

\* The three conditions as the matcher's contract states them, for the
\* tolerances tp, tw (hundredths) and tt2 (two-hundredths).
C11_Conditions(event, tp, tw, tt2) ==
  LET w == mtWeather[1]
  IN  (IF Abs(event.maxPrecipitation - w.precipitation) < tp THEN 1 ELSE 0)
    + (IF Abs(event.maxWindSpeed - w.windSpeed) < tw THEN 1 ELSE 0)
    + (IF /\ 2 * w.temperature >= 2 * event.minTemperature - tt2
          /\ 2 * w.temperature <= 2 * event.maxTemperature + tt2
         THEN 1 ELSE 0)

\* The catalog events that satisfy at least 2 of the 3 conditions under the
\* tolerances in force for the call.
C11_Matching ==
  LET t == getTolerances(mtContext)
  IN  { i \in 1..Len(historicalEvents) :
          C11_Conditions(historicalEvents[i], t.precipitation.num, t.wind.num,
                         (2 * t.temperature.num) \div t.temperature.den) >= 2 }

\* C11: findSimilarHistoricalEvent returns null exactly when no catalog
\* event satisfies at least 2 of the 3 conditions; otherwise it returns a
\* matching event whose date is not earlier than that of any other matching
\* event; and with the default tolerances (15, 20, 8) the input
\* precipitation 22.3, windSpeed 24.7, temperature 18.4 yields DANA
\* Valencia-Madrid (2024-10-29).
C11_MostRecentMatch ==
  Matched =>
    LET result == mtEvent[1]
    IN  /\ (result = None) <=> (C11_Matching = {})
        /\ result # None =>
             /\ \E i \in C11_Matching : historicalEvents[i] = result[1]
             /\ \A i \in C11_Matching : historicalEvents[i].date <= result[1].date
        /\ ( /\ mtContext = None
             /\ mtWeather[1].precipitation = 2230
             /\ mtWeather[1].windSpeed = 2470
             /\ mtWeather[1].temperature = 1840 )
             => /\ getTolerances(mtContext) =
                     [precipitation |-> Rat(1500, 1), wind |-> Rat(2000, 1),
                      temperature |-> Rat(800, 1)]
                /\ result # None
                /\ result[1].name = "DANA Valencia-Madrid"
                /\ result[1].date = 20241029

-----------------------------------------------------------------------------
(* Claims about the source adapters, checked under SpecAdapter             *)

AdapterReturned == adResult # NotReturned

\* A window that fetchNASAData can take its reading from: a series whose
\* temperature and humidity on the latest date are present and not -999.
C12_UsableWindow(w) ==
  /\ w.kind = "series"
  /\ w.T2M_MAX # None /\ w.T2M_MAX[1] # NASA_SENTINEL
  /\ w.RH2M # None /\ w.RH2M[1] # NASA_SENTINEL

\* The NASA call fails: no usable window comes before the first window
\* whose fetch is rejected or whose body cannot be read.
C12_NasaFails ==
  LET windows == adUpstream[1]
  IN  ~ \E i \in 1..Len(windows) :
          /\ C12_UsableWindow(windows[i])
          /\ \A j \in 1..(i - 1) :
               windows[j].kind \notin
                 {"networkError", "badJson", "missingParameter"}

\* The AEMET call fails: the key is missing, a request fails, a body does
\* not parse, or there is no row to read.
C12_AemetFails ==
  \/ ~adUpstream[1].apiKey
  \/ adUpstream[1].observation # "ok"
  \/ adUpstream[1].datos # "rows"

\* C12: no source adapter throws to its caller.  Whenever fetchNASAData or
\* fetchAEMETData fails to obtain a reading (missing API key, network
\* exception, non-OK HTTP status, malformed or empty body, temperature or
\* humidity missing or -999 in every window) it returns a result with
\* status error and a non-empty error message, and otherwise one with
\* status success; whenever fetchERA5HistoricalData fails it returns the
\* empty series.
C12_AdaptersNeverThrow ==
  AdapterReturned =>
    LET r == adResult[1]
    IN  /\ ~r.thrown
        /\ r.value # None
        /\ adAdapter = "NASA" =>
             IF C12_NasaFails
               THEN r.value[1].status = "error" /\ r.value[1].error # ""
               ELSE r.value[1].status = "success"
        /\ adAdapter = "AEMET" =>
             IF C12_AemetFails
               THEN r.value[1].status = "error" /\ r.value[1].error # ""
               ELSE r.value[1].status = "success"
        /\ adAdapter = "ERA5" =>
             (adUpstream[1].kind # "hourly" => r.value[1] = <<>>)

\* A NASA call whose first window has -999 for the temperature, whose
\* second window's fetch is rejected, and which returned the error result
\* carrying the message of the rejection.
C12_Witness ==
  /\ AdapterReturned
  /\ adAdapter = "NASA"
  /\ adUpstream[1][1].kind = "series"
  /\ adUpstream[1][1].T2M_MAX = Some(NASA_SENTINEL)
  /\ adUpstream[1][2].kind = "networkError"
  /\ ~adResult[1].thrown
  /\ adResult[1].value[1].status = "error"
  /\ adResult[1].value[1].error = "fetch failed"

\* C13: no field of a successful NASA result is the missing-value marker
\* -999 or a value derived from it (-999 / 100 for the pressure): when the
\* series holds -999 for a parameter on the selected date, the result does
\* not report it.
C13_NoSentinelInSuccess ==
  ( /\ AdapterReturned
    /\ adAdapter = "NASA"
    /\ adResult[1].value[1].status = "success" )
    => LET r == adResult[1].value[1]
       IN  /\ r.temperature # Some(NASA_SENTINEL)
           /\ r.humidity # Some(NASA_SENTINEL)
           /\ r.precipitation # Some(NASA_SENTINEL)
           /\ r.windSpeed # Some(NASA_SENTINEL)
           /\ r.pressure # Some(-999)

-----------------------------------------------------------------------------
(* Further claims about the useWeatherData hook, checked under Spec        *)

\* C14: no two fusion cycles run concurrently: at no time is more than one
\* refresh (periodic or manual) awaiting the response to its fetch.
C14_NoConcurrentRefresh == Len(inflight) <= 1

\* C16: while simulation mode is active, the manual refresh trigger is a
\* no-op: the call issues no fetch and leaves the displayed reading, the
\* platform risk scores, the confidence, the data source, the loading flag
\* and the manual cool-down timestamp unchanged.
C16_ManualRefreshNoOpInSimulation ==
  [][(isSimulating /\ lastCall' = "refreshData")
       => UNCHANGED <<inflight, weatherData, platforms, confidence,
                      dataSource, loading, lastManualUpdate>>]_vars

\* refreshData ran last, in simulation mode, with the simulated reading on
\* display, while the cool-down would have let a manual refresh through.
C16_Witness ==
  /\ lastCall = "refreshData"
  /\ isSimulating
  /\ weatherData # None
  /\ weatherData[1].dataQuality = "simulated"
  /\ canMakeManualUpdate(lastManualUpdate)

\* The reading X that a displayed simulated reading was built from.
C17_SimulatedData ==
  [timestamp |-> weatherData[1].timestamp,
   temperature |-> weatherData[1].temperature,
   humidity |-> weatherData[1].humidity,
   precipitation |-> weatherData[1].precipitation,
   windSpeed |-> weatherData[1].windSpeed,
   windDirection |-> weatherData[1].windDirection,
   pressure |-> weatherData[1].pressure]

\* C17: right after simulateWeather(X) the displayed reading is X, labelled
\* as a simulation, simulation mode is on, and every platform's riskScore
\* equals calculateRiskScore(X, platform, 1.20); no adapter or fusion
\* result enters it.
C17_SimulateScoresExtreme ==
  lastCall = "simulateWeather" =>
    /\ isSimulating
    /\ weatherData # None
    /\ C17_SimulatedData \in ScenarioData(weatherData[1].timestamp)
    /\ weatherData[1].sources = <<"DANA Simulation">>
    /\ weatherData[1].dataQuality = "simulated"
    /\ anomalyLevel = "extreme"
    /\ Len(platforms) = Len(initialPlatforms)
    /\ \A i \in 1..Len(platforms) :
         /\ platforms[i].id = initialPlatforms[i].id
         /\ platforms[i].riskScore =
              calculateRiskScore(C17_SimulatedData, initialPlatforms[i], 120)

\* The DANA Severa reading was simulated over a fused reading with a normal
\* anomaly level, and the unroofed platform P4 scores 94.
C17_Witness ==
  /\ lastCall = "simulateWeather"
  /\ isSimulating
  /\ weatherData[1].precipitation = NumberOf(2230)
  /\ metadata # None
  /\ metadata[1].anomalyLevel = "normal"
  /\ platforms[4].riskScore = 94
  /\ platforms[1].riskScore = 78

-----------------------------------------------------------------------------
(* Further claims about the weather query, checked under SpecServer        *)

\* C15: every response of the query, from the fusion path and from the
\* emergency fallback alike, is a complete snapshot: it has every reading
\* field, sources, confidence and dataQuality, and a metadata object with
\* fusionStrategy, sourcesUsed, confidence, era5Validation,
\* historicalContext, rawSources and processingTime.
C15_CompleteSnapshot ==
  srvResponse # None =>
    /\ {"timestamp", "temperature", "humidity", "precipitation", "windSpeed",
        "windDirection", "pressure", "sources", "confidence", "dataQuality",
        "metadata"} \subseteq DOMAIN srvResponse[1]
    /\ {"fusionStrategy", "sourcesUsed", "confidence", "era5Validation",
        "historicalContext", "rawSources", "processingTime"}
         \subseteq DOMAIN srvResponse[1].metadata

-----------------------------------------------------------------------------
(* Claims about the simulation panel, checked under SpecSimulator          *)

\* min <= value <= max in exact arithmetic, the bounds in hundredths.
Within(value, min, max) ==
  /\ value.num >= min * value.den
  /\ value.num <= max * value.den

\* The claim's physical bounds, in hundredths.
WithinPhysicalBounds(data) ==
  /\ Within(data.temperature, -4000, 5000)
  /\ Within(data.precipitation, 0, 10000)
  /\ Within(data.windSpeed, 0, 6000)
  /\ Within(data.humidity, 0, 10000)
  /\ Within(data.pressure, 95000, 105000)

\* The last operation was simulateDANA with a reading that has a field
\* outside its bounds.
InvalidScenarioSubmitted(call) ==
  /\ call # None
  /\ call[1].op = "simulateDANA"
  /\ ~WithinPhysicalBounds(call[1].data[1])

\* C18: a call of simulateDANA whose reading has a field outside its
\* physical bounds changes nothing: no state of the panel, no timer that
\* would call onSimulate, and no state of the hook.
C18_InvalidScenarioRejected ==
  [][InvalidScenarioSubmitted(dsLastCall')
       => UNCHANGED <<simulatorStateVars, dsRuns, hookVars>>]_vars

\* The notice is acknowledged, so the validation is what decides, and a
\* reading with a field out of bounds has just been submitted.
C18_Witness ==
  /\ acknowledgedSimulation
  /\ InvalidScenarioSubmitted(dsLastCall)

-----------------------------------------------------------------------------
(* Claims about the baseline and the fusion, checked under SpecServer      *)

\* The baseline validation has returned, and the historical series it was
\* given is empty.
BaselineOnEmptySeries == srvCopernicus # None /\ srvEra5 = Some(<<>>)

\* C19: when the historical series is empty the baseline engine returns
\* the fixed averages 15.5, 64, 1.4, 8.2 and 1013.2, the anomalies of the
\* current reading against those constants, anomaly level normal,
\* confidence 30 and similarDaysFound 0.
C19_EmptySeriesBaseline ==
  BaselineOnEmptySeries =>
    LET c == srvCopernicus[1]
        current == currentWeatherOf(srvAemet[1], srvNasa[1])
    IN  /\ c.historicalAvg =
             [temperature |-> Rat(1550, 1), humidity |-> Rat(6400, 1),
              precipitation |-> Rat(140, 1), windSpeed |-> Rat(820, 1),
              pressure |-> Rat(101320, 1)]
        /\ c.anomaly =
             [temperature |-> Rat(current.temperature - 1550, 1),
              humidity |-> Rat(current.humidity - 6400, 1),
              precipitation |-> Rat(current.precipitation - 140, 1),
              windSpeed |-> Rat(current.windSpeed - 820, 1),
              pressure |-> Rat(current.pressure - 101320, 1)]
        /\ c.validation.anomalyLevel = "normal"
        /\ c.validation.confidence = 30
        /\ c.validation.similarDaysFound = 0

\* The baseline has answered on an empty series for a reading that differs
\* from the fixed averages.
C19_Witness ==
  /\ BaselineOnEmptySeries
  /\ srvAemet[1].status = "success"
  /\ srvCopernicus[1].anomaly.temperature # Rat(0, 1)

\* The fields that are fused, with their defaults.
FusionDefaults ==
  [temperature |-> 1800, humidity |-> 6000, precipitation |-> 0,
   windSpeed |-> 500, pressure |-> 101300, windDirection |-> 18000]

\* The value of a field in a source: None when the source failed or does
\* not carry the field.
Carried(sourceData, field) ==
  IF sourceData.status = "success" THEN sourceData[field] ELSE None

\* The double of value * weight + other * otherWeight, for values and
\* weights in hundredths.
weightedPair(value, weight, other, otherWeight) ==
  DoubleAdd(DoubleMul(DoubleOf(value, 100), DoubleOf(weight, 100)),
            DoubleMul(DoubleOf(other, 100), DoubleOf(otherWeight, 100)))

\* The double is within 2^-30 (less than 10^-9) of the value in hundredths.
IsDoubleOf(dbl, value) ==
  DoubleLess(DoubleAbs(DoubleSub(dbl, DoubleOf(value, 100))),
             [neg |-> FALSE, man |-> NatShiftLeft(<<1>>, 52), exp |-> -82])

\* C20: each fused field is 0.6*AEMET + 0.4*NASA when both successful
\* sources carry it, the one value when a single source does, and its
\* default when none does; it depends on no other field.  In exact
\* arithmetic the fused value is that number; the double of the response is
\* the double of 0.6*AEMET + 0.4*NASA in the first case, the double of the
\* default in the last, and within 2^-30 of the one value in the second.
C20_PerFieldFusion ==
  srvPc = "done" =>
    \A field \in DOMAIN FusionDefaults :
      LET a == Carried(srvAemet[1], field)
          n == Carried(srvNasa[1], field)
          fused == srvResponse[1][field]
      IN  /\ (a # None /\ n # None)
               => /\ 100 * fused.num = (60 * a[1] + 40 * n[1]) * fused.den
                  /\ fused.dbl = weightedPair(a[1], 60, n[1], 40)
          /\ (a # None /\ n = None)
               => /\ fused.num = a[1] /\ fused.den = 1
                  /\ IsDoubleOf(fused.dbl, a[1])
          /\ (a = None /\ n # None)
               => /\ fused.num = n[1] /\ fused.den = 1
                  /\ IsDoubleOf(fused.dbl, n[1])
          /\ (a = None /\ n = None)
               => fused = NumberOf(FusionDefaults[field])

\* Both sources succeeded, AEMET without a temperature but with a humidity:
\* one field comes from NASA alone, another from the weighted average.
C20_Witness ==
  /\ srvPc = "done"
  /\ srvAemet[1].status = "success" /\ srvNasa[1].status = "success"
  /\ srvAemet[1].temperature = None
  /\ srvAemet[1].humidity # None
  /\ srvResponse[1].temperature.num = srvNasa[1].temperature[1]
  /\ srvResponse[1].temperature.den = 1
  /\ srvResponse[1].humidity.num
       # srvNasa[1].humidity[1] * srvResponse[1].humidity.den

-----------------------------------------------------------------------------
(* Claims about confidence degradation, checked under SpecServer           *)

\* How many of AEMET, NASA and the baseline validation failed.
FailedCount ==
    (IF srvAemet[1].status = "error" THEN 1 ELSE 0)
  + (IF srvNasa[1].status = "error" THEN 1 ELSE 0)
  + (IF srvCopernicus[1].status = "error" THEN 1 ELSE 0)

\* C21: the fused confidence is 75 when only AEMET failed, 80 when only
\* NASA failed, 65 when only the baseline validation failed, and 30 when
\* more than one of them failed.
C21_DegradationTable ==
  Responded =>
    /\ (FailedCount = 1 /\ srvAemet[1].status = "error")
         => srvResponse[1].confidence = 75
    /\ (FailedCount = 1 /\ srvNasa[1].status = "error")
         => srvResponse[1].confidence = 80
    /\ (FailedCount = 1 /\ srvCopernicus[1].status = "error")
         => srvResponse[1].confidence = 65
    /\ FailedCount >= 2 => srvResponse[1].confidence = 30

-----------------------------------------------------------------------------
(* Claims about the recommendation engine, checked under SpecRecommend     *)

Recommended == rcResult # NotReturned

\* The four buckets of the warning level.
WarningBucket(score) ==
  IF AtLeast(score, 70) THEN "warning"
  ELSE IF AtLeast(score, 50) THEN "advisory"
  ELSE IF AtLeast(score, 30) THEN "watch"
  ELSE "info"

\* The effective score of a call: the current score plus the bonus of the
\* anomaly level (that of the branch taken), capped at 100.
EffectiveScore ==
  IF rcValidation = None THEN rcScore[1]
  ELSE cappedScore(rcScore[1],
         IF rcResult[1].similarEvent # None
           THEN matchAnomalyBonus(rcValidation[1].anomalyLevel)
           ELSE noMatchAnomalyBonus(rcValidation[1].anomalyLevel))

\* C22: the warning level is the bucket of the effective score (>= 70
\* warning, >= 50 advisory, >= 30 watch, otherwise info), whether or not a
\* similar historical event was found.
C22_WarningBuckets ==
  Recommended => rcResult[1].warningLevel = WarningBucket(EffectiveScore)

-----------------------------------------------------------------------------
(* Claims about late responses and simulation, checked under Spec          *)

\* C23: a response that arrives while simulation mode is on (its refresh
\* was superseded by the simulation) replaces neither the displayed
\* reading, nor the platform risk scores, nor the saved original reading.
C23_LateResponseIgnored ==
  [][(isSimulating /\ lastCall' = "fetchResolve")
       => UNCHANGED <<weatherData, platforms, originalWeatherData>>]_vars

\* C26: while simulation mode is on, a periodic refresh changes nothing on
\* display: the response to a tick that fired during the simulation
\* replaces neither the displayed reading, nor the platform risk scores,
\* nor the saved original reading.
C26_TickIgnoredInSimulation ==
  [][(/\ isSimulating
      /\ lastCall = "periodicTick"
      /\ Len(inflight) = 1
      /\ lastCall' = "fetchResolve")
       => UNCHANGED <<weatherData, platforms, originalWeatherData>>]_vars

-----------------------------------------------------------------------------
(* Further claims about the source adapters, checked under SpecAdapter     *)

\* The first window, in the order tried, whose latest date has a valid
\* temperature and humidity; 0 when there is none.
FirstUsableWindow(windows) ==
  IF \E i \in 1..Len(windows) : C12_UsableWindow(windows[i])
    THEN CHOOSE i \in 1..Len(windows) :
           /\ C12_UsableWindow(windows[i])
           /\ \A j \in 1..(i - 1) : ~C12_UsableWindow(windows[j])
    ELSE 0

\* C24: fetchNASAData returns success with the temperature and humidity of
\* the first window (3-10, then 10-17, then 17-30 days ago) whose latest
\* date has both valid, and returns status error only when every window
\* has failed.
C24_FirstValidWindow ==
  (AdapterReturned /\ adAdapter = "NASA") =>
    LET windows == adUpstream[1]
        first == FirstUsableWindow(windows)
        r == adResult[1].value[1]
    IN  IF first = 0
          THEN r.status = "error" /\ r.error # ""
          ELSE /\ r.status = "success"
               /\ r.temperature = windows[first].T2M_MAX
               /\ r.humidity = windows[first].RH2M

\* The number of a day's hourly values of one field that are not null.
RECURSIVE dayCount(_, _, _)
dayCount(hours, date, field) ==
  IF hours = <<>> THEN 0
  ELSE dayCount(Tail(hours), date, field)
         + (IF Head(hours).date = date /\ Head(hours)[field] # None
              THEN 1 ELSE 0)

\* The rational r is the mean of the day's non-null values of the field.
IsDayMean(r, hours, date, field) ==
  dayCount(hours, date, field) > 0 =>
    r.num * dayCount(hours, date, field) = daySum(hours, date, field) * r.den

\* C25: each daily record of fetchERA5HistoricalData holds the mean of the
\* day's non-null hourly temperature, humidity, wind speed and pressure,
\* and the sum of the day's hourly precipitation, whatever the number of
\* hourly samples and whichever of them are null.
C25_DailyMeans ==
  (AdapterReturned /\ adAdapter = "ERA5" /\ adUpstream[1].kind = "hourly") =>
    LET hours == adUpstream[1].hours
        result == adResult[1].value[1]
    IN  \A k \in 1..Len(result) :
          /\ \A field \in {"temperature", "humidity", "windSpeed", "pressure"} :
               IsDayMean(result[k][field], hours, result[k].date, field)
          /\ result[k].precipitation.num =
               daySum(hours, result[k].date, "precipitation")
                 * result[k].precipitation.den

\* C27: simulateWeather followed directly by resetSimulation puts every
\* platform's riskScore and the reported anomaly level back to what they
\* were just before simulateWeather, whatever the anomaly level of the
\* fused reading that was on display.
C27_ResetRestoresScores ==
  [][(scoredBeforeSim # None /\ lastCall' = "resetSimulation")
       => ScoredNow' = scoredBeforeSim[1]]_vars


\* A step in which updateHistoricalAnalysis is handed an average: a response
\* is applied, a simulation is entered, or a reset restores the saved reading.
AnalysisStep ==
  \/ lastCall' = "fetchResolve" /\ weatherData' # weatherData
  \/ lastCall' = "simulateWeather"
  \/ lastCall' = "resetSimulation" /\ originalWeatherData # None

\* C28: in every refresh, simulate and reset step, the average risk score
\* handed to the historical analysis is the average of the platform risk
\* scores computed in that same step from the new reading.
C28_AverageOfNewScores ==
  [][AnalysisStep
       => historicalAnalysis'[1].averageRiskScore
            = averageRiskScore(platforms')]_vars


\* The i-th outstanding fetch settles as a failure (non-OK status or a
\* rejected fetch) and the catch and finally blocks of its call run.
FailedRefresh(i) ==
  /\ ResponseFailed(inflight[i])
  /\ inflight' = RemoveAt(inflight, i)
  /\ lastCall' = "fetchResolve"

\* C29: when a refresh fails while a reading is on display, whether it was
\* periodic or manual, the reading, the platform scores, the confidence, the
\* data-source label, the last-update time and the manual cool-down
\* timestamp stay as they were and loading is false again.
C29_FailureKeepsDisplay ==
  [][(weatherData # None /\ \E i \in 1..Len(inflight) : FailedRefresh(i))
       => /\ UNCHANGED <<weatherData, platforms, confidence, dataSource,
                         lastUpdate, lastManualUpdate>>
          /\ loading' = FALSE]_vars


\* C30: a successful AEMET result carries every field the station reported
\* with its numeric value, a reported 0 included (temperature 0, wind speed
\* 0, wind direction 0), so that fusion has the field to weight.
C30_ReportedFieldsCarried ==
  ( /\ AdapterReturned
    /\ adAdapter = "AEMET"
    /\ adResult[1].value[1].status = "success" )
    => LET r == adResult[1].value[1]
           latest == adUpstream[1].latest
       IN  /\ latest.ta # None => r.temperature = latest.ta
           /\ latest.hr # None => r.humidity = latest.hr
           /\ latest.prec # None => r.precipitation = latest.prec
           /\ latest.vv # None => r.windSpeed = latest.vv
           /\ latest.dv # None => r.windDirection = latest.dv
           /\ latest.pres # None => r.pressure = latest.pres

====
